---- MODULE Spec2Model ----
(***************************************************************************)
(* Connection management of neurodamus (neurodamus/connection_manager.py): *)
(* the ConnectionSet sorted multimap, the streaming grouping of a target    *)
(* cell's synapse table, and the ConnectionManagerBase lifecycle.           *)
(*                                                                         *)
(* Conventions: Python None is 0 for gids, -1 for positions and <<>> for   *)
(* connections; positions are 0-based as in the source, so element pos of  *)
(* a Python list l is l[pos + 1] here.  Connection objects live in `heap`  *)
(* and are referred to by a handle, because the source aliases them        *)
(* between a ConnectionSet and the disabled registry.                      *)
(***************************************************************************)
EXTENDS Integers, Sequences, FiniteSets, TLC

VARIABLES
    heap,               \* the live Connection objects, by handle
    populations,        \* ConnectionManagerBase._populations, insertion order
    mgr,                \* the other fields of the ConnectionManagerBase
    last,               \* what the caller saw of the operation just performed
    scan,               \* _iterate_conn_params at work on one target's table
    ranks,              \* the ranks of a parallel run, each inside finalize
    env                 \* what surrounds the manager: files, reader library, clock

vars == <<heap, populations, mgr, last, scan, ranks, env>>

(***************************************************************************)
(* Bounds                                                                  *)
(***************************************************************************)
MaxConns == 4           \* Connection objects alive at the same time
MaxDrift == 1           \* how far a running count is followed below the real one
MaxRows == 6            \* rows of one target cell's synapse table
NRanks == 3             \* ranks of the parallel run
MaxDisabled == 2         \* entries of the disabled registry for one target cell
MaxSyns == 3            \* synapses attached to the connections of a manager

Targets == {1, 2}       \* post-synaptic gids
Sources == {3, 5, 7}    \* pre-synaptic gids
NoneGid == 0

(***************************************************************************)
(* Generic helpers                                                         *)
(***************************************************************************)
Range(s) == {s[i] : i \in 1..Len(s)}

SeqsUpTo(S, n) == UNION {[1..k -> S] : k \in 0..n}

RECURSIVE SumSeq(_)
SumSeq(s) == IF s = <<>> THEN 0 ELSE s[1] + SumSeq(Tail(s))

\* list.insert(pos, x) with 0 <= pos <= len
InsertAt(s, pos, x) == SubSeq(s, 1, pos) \o <<x>> \o SubSeq(s, pos + 1, Len(s))

\* del list[pos]
RemoveAt(s, pos) == SubSeq(s, 1, pos) \o SubSeq(s, pos + 2, Len(s))

\* the elements of s whose 0-based position is not in idx, in order
RECURSIVE KeepNotAt(_, _, _)
KeepNotAt(s, idx, pos) ==
    IF pos >= Len(s) THEN <<>>
    ELSE (IF pos \in idx THEN <<>> ELSE <<s[pos + 1]>>) \o KeepNotAt(s, idx, pos + 1)

(***************************************************************************)
(* Argument shapes: None, an int, or a list of ints                        *)
(***************************************************************************)
SelNone == [k |-> "none", v |-> <<>>]
SelInt(x) == [k |-> "int", v |-> <<x>>]
SelList(l) == [k |-> "list", v |-> l]

(***************************************************************************)
(* Connection objects                                                      *)
(***************************************************************************)
NewConnection(sgid, tgid, src_id, dst_id, weight_factor) ==
    [sgid |-> sgid, tgid |-> tgid, population_id |-> <<src_id, dst_id>>,
     weight_factor |-> weight_factor, locked |-> FALSE, disabled |-> FALSE,
     synapses |-> <<>>, minis_spont_rate |-> 0, netcon_weight |-> -1,
     synapse_configurations |-> <<>>, delayed_weights |-> <<>>, replays |-> <<>>]

\* The handle of an object is <<src_id, dst_id, sgid, tgid, n>>: n tells
\* apart objects built for the same pair while an older one is still alive.
\* An object nothing refers to any more is garbage and leaves the heap.
NoConn == <<>>

Alloc(h, conn) ==
    LET key(n) == <<conn.population_id[1], conn.population_id[2], conn.sgid, conn.tgid, n>>
    IN  key(CHOOSE n \in 1..(Cardinality(DOMAIN h) + 1) :
                /\ key(n) \notin DOMAIN h
                /\ \A m \in 1..(n - 1) : key(m) \in DOMAIN h)

Put(h, c, conn) == [x \in DOMAIN h \cup {c} |-> IF x = c THEN conn ELSE h[x]]

Collect(h, refs) == [x \in DOMAIN h \cap refs |-> h[x]]

\* the sgid key of every connection of a list (lambda x: x.sgid)
SgidsOf(h, conns) == [i \in 1..Len(conns) |-> h[conns[i]].sgid]

(***************************************************************************)
(* utils.bin_search: index of key, else the index where it is to be        *)
(* inserted to keep the ordering                                           *)
(***************************************************************************)
RECURSIVE BinSearchLoop(_, _, _, _)
BinSearchLoop(keys, key, low, high) ==
    IF low >= high THEN low
    ELSE LET mid == (low + high) \div 2
         IN  IF key > keys[mid + 1] THEN BinSearchLoop(keys, key, mid + 1, high)
             ELSE IF key < keys[mid + 1] THEN BinSearchLoop(keys, key, low, mid)
             ELSE mid

bin_search(keys, key) == BinSearchLoop(keys, key, 0, Len(keys))

(***************************************************************************)
(* ConnectionSet._connections_map: a defaultdict(list), kept as the         *)
(* sequence of its (tgid, connection list) items in insertion order        *)
(***************************************************************************)
MapHas(m, t) == \E i \in 1..Len(m) : m[i].tgid = t

MapIdx(m, t) == CHOOSE i \in 1..Len(m) : m[i].tgid = t

\* defaultdict.__getitem__: a missing key is inserted with an empty list
MapTouch(m, t) == IF MapHas(m, t) THEN m ELSE Append(m, [tgid |-> t, conns |-> <<>>])

MapGet(m, t) == IF MapHas(m, t) THEN m[MapIdx(m, t)].conns ELSE <<>>

MapSet(m, t, conns) == [MapTouch(m, t) EXCEPT ![MapIdx(MapTouch(m, t), t)].conns = conns]

MapKeys(m) == [i \in 1..Len(m) |-> m[i].tgid]

\* ConnectionSet(src_id, dst_id, conn_factory=Connection)
ConnectionSetInit(src_id, dst_id) ==
    [src_id |-> src_id, dst_id |-> dst_id, src_name |-> "", dst_name |-> "",
     conn_factory |-> "Connection", cmap |-> <<>>, conn_count |-> 0]

\* ConnectionSet(src_id, dst_id, conn_factory=ACellConnection)
ACellConnectionSet(src_id, dst_id) ==
    [ConnectionSetInit(src_id, dst_id) EXCEPT !.conn_factory = "ACellConnection"]

\* self._conn_factory(sgid, tgid, self.src_id, self.dst_id, **kwargs): an
\* ACellConnection hands None to its base class in place of the sgid
conn_factory(cs, sgid, tgid, weight_factor) ==
    NewConnection(IF cs.conn_factory = "ACellConnection" THEN NoneGid ELSE sgid,
                  tgid, cs.src_id, cs.dst_id, weight_factor)

\* Result of a ConnectionSet method: the heap, the set, what it returned and
\* whether it logged an error ("logged") or raised ("raised")
Res(h, cs, ret, err) == [h |-> h, cs |-> cs, ret |-> ret, err |-> err]

(***************************************************************************)
(* ConnectionSet._find_connection: position of sgid in the list of tgid;   *)
(* when absent, -1 (None) if exact, otherwise the insertion position       *)
(***************************************************************************)
\* (variant: the element found at pos is not compared with sgid)
find_connection_pos_nocmp(h, cs, sgid, tgid, exact) ==
    LET cell_conns == MapGet(cs.cmap, tgid)
        pos == IF cell_conns # <<>> THEN bin_search(SgidsOf(h, cell_conns), sgid) ELSE 0
    IN  IF exact /\ pos = Len(cell_conns) THEN -1 ELSE pos

find_connection_pos(h, cs, sgid, tgid, exact) ==
    LET cell_conns == MapGet(cs.cmap, tgid)
        pos == IF cell_conns # <<>> THEN bin_search(SgidsOf(h, cell_conns), sgid) ELSE 0
    IN  IF exact /\ (pos = Len(cell_conns) \/ h[cell_conns[pos + 1]].sgid # sgid)
        THEN -1
        ELSE pos

_find_connection(h, cs, sgid, tgid, exact) ==
    Res(h, [cs EXCEPT !.cmap = MapTouch(cs.cmap, tgid)],
        find_connection_pos(h, cs, sgid, tgid, exact), "")

\* ConnectionSet.get_connection: the connection, or None
get_connection(h, cs, sgid, tgid) ==
    LET f == _find_connection(h, cs, sgid, tgid, TRUE)
    IN  Res(h, f.cs, IF f.ret = -1 THEN NoConn ELSE MapGet(f.cs.cmap, tgid)[f.ret + 1], "")

(***************************************************************************)
(* ConnectionSet.get_connections(post_gids, pre_gids), the sequence it     *)
(* returns taken to its end.  Indexing _connections_map with a target id   *)
(* that has no list yet gives it an empty one.                             *)
(***************************************************************************)
\* (variant: the sources are not filtered)
conns_matching_all(h, conns, pre_gids) == conns

\* the connections of one list that pass pre_gids: all of them (None), the
\* one bin_search finds (int), or those with sgid in set(pre_gids)
conns_matching(h, conns, pre_gids) ==
    IF pre_gids.k = "none" THEN conns
    ELSE IF pre_gids.k = "int"
    THEN LET posi == bin_search(SgidsOf(h, conns), pre_gids.v[1])
         IN  IF posi < Len(conns) /\ h[conns[posi + 1]].sgid = pre_gids.v[1]
             THEN <<conns[posi + 1]>> ELSE <<>>
    ELSE LET InSet(c) == h[c].sgid \in Range(pre_gids.v)
         IN  SelectSeq(conns, InSet)

\* `self._connections_map[tgid] for tgid in post_gids`, filtered
RECURSIVE get_connections_loop(_, _, _, _, _)
get_connections_loop(h, cs, tl, pre_gids, out) ==
    IF tl = <<>> THEN Res(h, cs, out, "")
    ELSE LET m == MapTouch(cs.cmap, tl[1])
         IN  get_connections_loop(h, [cs EXCEPT !.cmap = m], Tail(tl), pre_gids,
                                  out \o conns_matching(h, MapGet(m, tl[1]), pre_gids))

get_connections(h, cs, post_gids, pre_gids) ==
    IF post_gids.k = "int" /\ pre_gids.k = "none"
    THEN LET m == MapTouch(cs.cmap, post_gids.v[1])
         IN  Res(h, [cs EXCEPT !.cmap = m], MapGet(m, post_gids.v[1]), "")
    ELSE IF post_gids.k = "int" /\ pre_gids.k = "int"
    THEN LET g == get_connection(h, cs, pre_gids.v[1], post_gids.v[1])
         IN  Res(h, g.cs, IF g.ret = NoConn THEN <<>> ELSE <<g.ret>>, "")
    ELSE get_connections_loop(h, cs,
                              IF post_gids.k = "none" THEN MapKeys(cs.cmap) ELSE post_gids.v,
                              pre_gids, <<>>)

(***************************************************************************)
(* ConnectionSet.store_connection(conn): conn is the object the caller     *)
(* built; it enters the heap when it is stored                             *)
(***************************************************************************)
store_connection(h, cs, conn) ==
    LET f == _find_connection(h, cs, conn.sgid, conn.tgid, FALSE)
        cell_conns == MapGet(f.cs.cmap, conn.tgid)
        pos == f.ret
    IN  IF cell_conns # <<>> /\ pos < Len(cell_conns)
           /\ h[cell_conns[pos + 1]].sgid = conn.sgid
        THEN Res(h, f.cs, NoConn, "logged")
        ELSE Res(Put(h, Alloc(h, conn), conn),
                 [f.cs EXCEPT !.conn_count = @ + 1,
                              !.cmap = MapSet(@, conn.tgid,
                                              InsertAt(cell_conns, pos, Alloc(h, conn)))],
                 NoConn, "")

(***************************************************************************)
(* ConnectionSet.get_or_create_connection                                  *)
(***************************************************************************)
\* (variant: a new connection always goes to the end of the list)
get_or_create_pos_append(h, conns, sgid) ==
    IF conns = <<>> THEN <<FALSE, 0>>
    ELSE LET lastsg == h[conns[Len(conns)]].sgid
         IN  IF lastsg = sgid \/ lastsg = NoneGid THEN <<TRUE, Len(conns) - 1>>
             ELSE IF lastsg < sgid THEN <<FALSE, Len(conns)>>
             ELSE LET pos == bin_search(SgidsOf(h, conns), sgid)
                  IN  <<h[conns[pos + 1]].sgid = sgid, IF h[conns[pos + 1]].sgid = sgid
                                                       THEN pos ELSE Len(conns)>>

\* (variant: the binary search result is not compared with sgid)
get_or_create_pos_nocheck(h, conns, sgid) ==
    IF conns = <<>> THEN <<FALSE, 0>>
    ELSE LET lastsg == h[conns[Len(conns)]].sgid
         IN  IF lastsg = sgid \/ lastsg = NoneGid THEN <<TRUE, Len(conns) - 1>>
             ELSE IF lastsg < sgid THEN <<FALSE, Len(conns)>>
             ELSE <<FALSE, bin_search(SgidsOf(h, conns), sgid)>>

\* (variant: the last connection is compared with sgid only)
get_or_create_pos_sgid_only(h, conns, sgid) ==
    IF conns = <<>> THEN <<FALSE, 0>>
    ELSE LET lastsg == h[conns[Len(conns)]].sgid
         IN  IF lastsg = sgid THEN <<TRUE, Len(conns) - 1>>
             ELSE IF lastsg < sgid THEN <<FALSE, Len(conns)>>
             ELSE LET pos == bin_search(SgidsOf(h, conns), sgid)
                  IN  <<h[conns[pos + 1]].sgid = sgid, pos>>

\* where get_or_create_connection looks: <<found, pos>>
get_or_create_pos(h, conns, sgid) ==
    IF conns = <<>> THEN <<FALSE, 0>>
    ELSE LET lastsg == h[conns[Len(conns)]].sgid
         IN  IF lastsg = sgid \/ lastsg = NoneGid THEN <<TRUE, Len(conns) - 1>>
             ELSE IF lastsg < sgid THEN <<FALSE, Len(conns)>>
             ELSE LET pos == bin_search(SgidsOf(h, conns), sgid)
                  IN  <<h[conns[pos + 1]].sgid = sgid, pos>>

get_or_create_connection(h, cs, sgid, tgid, weight_factor) ==
    LET m == MapTouch(cs.cmap, tgid)
        conns == MapGet(m, tgid)
        fp == get_or_create_pos(h, conns, sgid)
        new == conn_factory(cs, sgid, tgid, weight_factor)
        cur_conn == Alloc(h, new)
    IN  IF fp[1]
        THEN Res(h, [cs EXCEPT !.cmap = m], conns[fp[2] + 1], "")
        ELSE Res(Put(h, cur_conn, new),
                 [cs EXCEPT !.cmap = MapSet(m, tgid, InsertAt(conns, fp[2], cur_conn)),
                            !.conn_count = @ + 1],
                 cur_conn, "")

(***************************************************************************)
(* ConnectionSet.delete                                                    *)
(***************************************************************************)
\* (variant: the lookup is not exact)
cs_delete_inexact(h, cs, sgid, tgid) ==
    LET f == _find_connection(h, cs, sgid, tgid, FALSE)
    IN  Res(h, [f.cs EXCEPT !.conn_count = @ - 1,
                            !.cmap = MapSet(@, tgid, RemoveAt(MapGet(@, tgid), f.ret))],
            NoConn, "")

cs_delete(h, cs, sgid, tgid) ==
    LET f == _find_connection(h, cs, sgid, tgid, TRUE)
    IN  IF f.ret = -1
        THEN Res(h, f.cs, NoConn, "logged")
        ELSE Res(h, [f.cs EXCEPT !.conn_count = @ - 1,
                                 !.cmap = MapSet(@, tgid, RemoveAt(MapGet(@, tgid), f.ret))],
                 NoConn, "")

(***************************************************************************)
(* ConnectionSet._find_connections and delete_group                        *)
(***************************************************************************)
\* numpy.searchsorted(a, v) (side='left'): the number of elements below v
searchsorted(keys, v) == Cardinality({i \in 1..Len(keys) : keys[i] < v})

\* the target lists a (post_gids) selector walks through, in order
post_gid_list(cs, post_gids) ==
    IF post_gids.k = "none" THEN MapKeys(cs.cmap) ELSE post_gids.v

\* the indices _find_connections pairs with one connection list
find_indices(h, conns, pre_gids) ==
    IF pre_gids.k = "none" THEN [i \in 1..Len(conns) |-> i - 1]
    ELSE [j \in 1..Len(pre_gids.v) |-> searchsorted(SgidsOf(h, conns), pre_gids.v[j])]

\* delete_group over the remaining targets tl.  numpy.delete removes every
\* position named in indices once, however often it is named, and raises
\* IndexError for a position outside the list; the assignment and the
\* count update of that target are then not reached.
RECURSIVE delete_group_loop(_, _, _, _)
delete_group_loop(h, cs, tl, pre_gids) ==
    IF tl = <<>> THEN Res(h, cs, NoConn, "")
    ELSE LET tgid == tl[1]
             m == MapTouch(cs.cmap, tgid)
             conns == MapGet(m, tgid)
             indices == find_indices(h, conns, pre_gids)
         IN  IF \E j \in 1..Len(indices) : indices[j] >= Len(conns)
             THEN Res(h, [cs EXCEPT !.cmap = m], NoConn, "raised")
             ELSE delete_group_loop(
                      h,
                      [cs EXCEPT !.cmap = MapSet(m, tgid, KeepNotAt(conns, Range(indices), 0)),
                                 !.conn_count = @ - Len(indices)],
                      Tail(tl), pre_gids)

cs_delete_group(h, cs, post_gids, pre_gids) ==
    delete_group_loop(h, cs, post_gid_list(cs, post_gids), pre_gids)

count(cs) == cs.conn_count

(***************************************************************************)
(* Targets of the TargetManager: a named set of gids, or None              *)
(***************************************************************************)
TargetNone == [k |-> "none", gids |-> {}]

TargetOf(gids) == [k |-> "target", gids |-> gids]

\* Target.completeContains / Target.contains
completeContains(target, gid) == gid \in target.gids

(***************************************************************************)
(* ConnectionManagerBase._iterate_conn_params, the grouping of one target  *)
(* cell's table.  sgids is field 0 of the table; a yielded tuple is         *)
(* <<sgid, first row, row after the last>> for syns_params[cur_i:next_i].  *)
(***************************************************************************)
\* (variant: the position of the first differing row is counted from 1)
argmax_differs_from1(sgids, cur_i, sgid) ==
    LET differs == {i \in cur_i..(Len(sgids) - 1) : sgids[i + 1] # sgid}
    IN  IF differs = {} THEN 0
        ELSE (CHOOSE i \in differs : \A j \in differs : i <= j) - cur_i + 1

\* numpy.argmax(sgids[cur_i:] != sgid): the first position of the slice whose
\* row differs from sgid, and 0 when no row differs
argmax_differs(sgids, cur_i, sgid) ==
    LET differs == {i \in cur_i..(Len(sgids) - 1) : sgids[i + 1] # sgid}
    IN  IF differs = {} THEN 0
        ELSE (CHOOSE i \in differs : \A j \in differs : i <= j) - cur_i

NoScan == [sgids |-> <<>>, src_target |-> TargetNone, cur_i |-> 0, out |-> <<>>]

StartScan(sgids, src_target) ==
    [sgids |-> sgids, src_target |-> src_target, cur_i |-> 0, out |-> <<>>]

\* one turn of `while cur_i < syn_count`
scan_step(sc) ==
    LET syn_count == Len(sc.sgids)
        sgid == sc.sgids[sc.cur_i + 1]
        found == argmax_differs(sc.sgids, sc.cur_i, sgid) + sc.cur_i
        next_i == IF sc.cur_i = found THEN syn_count ELSE found
    IN  [sc EXCEPT !.cur_i = next_i,
                   !.out = IF sc.src_target.k = "none" \/ completeContains(sc.src_target, sgid)
                           THEN Append(@, <<sgid, sc.cur_i, next_i>>)
                           ELSE @]

\* the whole loop: every tuple yielded for the table
RECURSIVE scan_all(_)
scan_all(sc) == IF sc.cur_i < Len(sc.sgids) THEN scan_all(scan_step(sc)) ELSE sc.out

(***************************************************************************)
(* ConnectionManagerBase._populations: the ConnectionSets in insertion      *)
(* order; construction instantiates the default population (0, 0)          *)
(***************************************************************************)
PopHas(pops, key) == \E i \in 1..Len(pops) : <<pops[i].src_id, pops[i].dst_id>> = key

PopIdx(pops, key) == CHOOSE i \in 1..Len(pops) : <<pops[i].src_id, pops[i].dst_id>> = key

\* what the caller saw of the last operation: its name, what it returned,
\* whether it logged or raised, and by how much count() moved
NoOp == [op |-> "init", ret |-> NoConn, err |-> "", dcount |-> 0]

Op(name, r, cs0) == [op |-> name, ret |-> r.ret,
                     err |-> r.err, dcount |-> r.cs.conn_count - cs0.conn_count]

(***************************************************************************)
(* The surroundings of the manager: the names of the files in the          *)
(* directory a path leads to, whether synapsetool is available to the      *)
(* SynapseReader, and the simulation time Nd.t                             *)
(***************************************************************************)
NoEnv == [files |-> {}, syntool |-> TRUE, t |-> 0, gjinfo |-> <<>>]

(***************************************************************************)
(* ConnectionManagerBase.__init__: the manager's own fields.  None is ""   *)
(* for a name and 0 for the reader; a population is referred to by its key *)
(* (src_id, dst_id).  log collects what the running operation reported.    *)
(***************************************************************************)
NoneName == ""

NodeNames == {"NodeA", "NodeB", "Proj"}

ManagerInit ==
    [cur |-> <<0, 0>>,
     base_population |-> NoneName,
     by_src_nodes |-> [n \in NodeNames \cup {NoneName} |-> <<>>],
     disabled_conns |-> [t \in Targets |-> <<>>],
     synapse_reader |-> 0,
     total_connections |-> 0,
     circuit_target |-> TargetNone,
     log |-> {}]

(***************************************************************************)
(* Specification of one ConnectionSet driven through its public methods    *)
(***************************************************************************)
TheSet == populations[1]

\* Argument shapes of the group operations.  An int and the one-element list
\* take the same path for pre_gids ([pre_gids]); the order of a pre_gids list
\* does not change the index set computed from it.
PostSelectors == {SelNone} \cup {SelInt(t) : t \in Targets}
                 \cup {SelList(<<t, u>>) : <<t, u>> \in {tu \in Targets \X Targets : tu[1] < tu[2]}}

PreSelectors == {SelNone, SelList(<<>>)} \cup {SelInt(s) : s \in Sources}
                \cup {SelList(<<a, b>>) : <<a, b>> \in {ab \in Sources \X Sources : ab[1] <= ab[2]}}

InitSet ==
    /\ heap = <<>>
    /\ populations = <<ConnectionSetInit(0, 0)>>
    /\ mgr = ManagerInit
    /\ last = NoOp
    /\ scan = NoScan
    /\ ranks = <<>>
    /\ env = NoEnv

\* the handles a ConnectionSet holds
AllConns(cs) == UNION {Range(cs.cmap[j].conns) : j \in 1..Len(cs.cmap)}

Referenced(pops) == UNION {AllConns(pops[i]) : i \in 1..Len(pops)}

\* the step is method `name` of the set with result r
SetStep(name, r) ==
    /\ populations' = [populations EXCEPT ![1] = r.cs]
    /\ heap' = Collect(r.h, Referenced(populations'))
    /\ last' = Op(name, r, populations[1])
    /\ UNCHANGED <<mgr, scan, ranks, env>>

Apply(name, r) ==
    /\ Cardinality(DOMAIN r.h) <= MaxConns
    /\ Cardinality(AllConns(r.cs)) - r.cs.conn_count <= MaxDrift
    /\ SetStep(name, r)

GetOrCreate ==
    \E s \in Sources, t \in Targets :
        /\ Apply("get_or_create_connection",
                 get_or_create_connection(heap, TheSet, s, t, 1))

\* store_connection of a connection object built by the caller
Store ==
    \E s \in Sources, t \in Targets :
        Apply("store_connection",
              store_connection(heap, TheSet, NewConnection(s, t, 0, 0, 1)))

Find ==
    \E s \in Sources, t \in Targets, exact \in BOOLEAN :
        Apply("_find_connection",
              [_find_connection(heap, TheSet, s, t, exact) EXCEPT !.ret = NoConn])

Delete ==
    \E s \in Sources, t \in Targets :
        Apply("delete", cs_delete(heap, TheSet, s, t))

DeleteGroup ==
    \E post \in PostSelectors, pre \in PreSelectors :
        Apply("delete_group", cs_delete_group(heap, TheSet, post, pre))

NextSet == GetOrCreate \/ Store \/ Find \/ Delete \/ DeleteGroup

SpecSet == InitSet /\ [][NextSet]_vars

(***************************************************************************)
(* Specification of a ConnectionSet that is filled, queried with           *)
(* get_connections and emptied again                                       *)
(***************************************************************************)
\* post_gids of get_connections: None, an int, lists in either order
QueryPostGids ==
    {SelNone, SelList(<<>>)} \cup {SelInt(t) : t \in Targets}
    \cup {SelList(<<t>>) : t \in Targets}
    \cup {SelList(<<t, u>>) : <<t, u>> \in {tu \in Targets \X Targets : tu[1] # tu[2]}}

GetConnections ==
    \E post_gids \in QueryPostGids, pre_gids \in PreSelectors :
        Apply("get_connections",
              [get_connections(heap, TheSet, post_gids, pre_gids) EXCEPT !.ret = NoConn])

NextQuery == GetOrCreate \/ GetConnections \/ Delete

SpecQuery == InitSet /\ [][NextQuery]_vars

(***************************************************************************)
(* Specification of the grouping loop over one target's table, which the   *)
(* reader returns sorted by source id                                      *)
(***************************************************************************)
SortedTables == {t \in SeqsUpTo(Sources, MaxRows) : \A i \in 1..(Len(t) - 1) : t[i] <= t[i + 1]}

SourceFilters == {TargetNone} \cup {TargetOf(g) : g \in SUBSET Sources}

InitScan ==
    /\ heap = <<>>
    /\ populations = <<ConnectionSetInit(0, 0)>>
    /\ mgr = ManagerInit
    /\ last = NoOp
    /\ ranks = <<>>
    /\ env = NoEnv
    /\ \E t \in SortedTables, f \in SourceFilters : scan = StartScan(t, f)

ScanGroup ==
    /\ scan.cur_i < Len(scan.sgids)
    /\ scan' = scan_step(scan)
    /\ UNCHANGED <<heap, populations, mgr, last, ranks, env>>

NextScan == ScanGroup

SpecScan == InitScan /\ [][NextScan]_vars

(***************************************************************************)
(* The manager as a whole: the heap, the populations and the manager's     *)
(* fields in one record, which the methods transform                       *)
(***************************************************************************)
World(h, pops, m) == [h |-> h, pops |-> pops, m |-> m]

\* result of a manager method: the manager after it, what it returned and
\* whether it raised
MRes(w, ret, err) == [w |-> w, ret |-> ret, err |-> err]

Cur(w) == w.pops[PopIdx(w.pops, w.m.cur)]

SetPop(w, key, cs) == [w EXCEPT !.pops[PopIdx(w.pops, key)] = cs]

Log(w, msg) == [w EXCEPT !.m.log = @ \cup {msg}]

get_population(w, key) ==
    IF PopHas(w.pops, key) THEN w
    ELSE [w EXCEPT !.pops = Append(@, ConnectionSetInit(key[1], key[2]))]

select_populations(w, src_id, dst_id) ==
    [get_population(w, <<src_id, dst_id>>) EXCEPT !.m.cur = <<src_id, dst_id>>]

(***************************************************************************)
(* Edge population names are kept as the groups "__" separates; <<>> is    *)
(* None.  NoneId is src_pop_id=None.                                       *)
(***************************************************************************)
NoneId == -1

BaseEdges == <<"NodeA", "NodeA", "chemical">>
ProjEdges == <<"Proj", "NodeA", "chemical">>

_edge_to_node_population_names(edge_pop_name) ==
    IF edge_pop_name = <<>> THEN <<NoneName, NoneName>>
    ELSE <<edge_pop_name[1],
           IF Len(edge_pop_name) > 2 THEN edge_pop_name[2] ELSE edge_pop_name[1]>>

\* hashlib.md5(node_pop.encode()).digest(): bytes 0 and 1 of the digests of
\* the names in use
md5_digest(node_pop) ==
    CASE node_pop = "NodeA" -> <<218, 191>>
      [] node_pop = "NodeB" -> <<225, 134>>
      [] node_pop = "Proj" -> <<205, 142>>

\* (variant: the second byte is not masked)
make_id_unmasked(node_pop) ==
    LET pop_hash == md5_digest(node_pop) IN pop_hash[2] * 256 + pop_hash[1]

\* ((pop_hash[1] & 0x0f) << 8) + pop_hash[0]
make_id(node_pop) ==
    LET pop_hash == md5_digest(node_pop) IN (pop_hash[2] % 16) * 256 + pop_hash[1]

\* the ConfigurationError of a mismatched destination is built, not raised
_compute_pop_ids(w, edge_pop_name) ==
    IF edge_pop_name = <<>>
    THEN MRes(w, <<0, 0>>, "")
    ELSE LET names == _edge_to_node_population_names(edge_pop_name)
             w1 == IF w.m.base_population = NoneName
                   THEN [w EXCEPT !.m.base_population = names[2]]
                   ELSE w
             src_pop_id == IF names[1] = w1.m.base_population THEN 0 ELSE make_id(names[1])
         IN  MRes(w1, <<src_pop_id, 0>>, "")

_init_conn_population(w, pop_name, src_pop_id) ==
    LET ids == IF src_pop_id = NoneId THEN _compute_pop_ids(w, pop_name)
               ELSE MRes(w, <<src_pop_id, 0>>, "")
        w1 == select_populations(ids.w, ids.ret[1], ids.ret[2])
        pop_names == _edge_to_node_population_names(pop_name)
        w2 == IF Len(pop_name) = 1 THEN Log(w1, "error: bad edge population name") ELSE w1
    IN  IF pop_names[1] # NoneName \/ ids.ret[1] > 0
        THEN [SetPop(w2, w2.m.cur, [Cur(w2) EXCEPT !.src_name = pop_names[1],
                                                   !.dst_name = pop_names[2]])
                 EXCEPT !.m.by_src_nodes[pop_names[1]] = Append(@, w2.m.cur)]
        ELSE w2

\* (variant: every connection keeps its flag)
_unlock_none(w) == w

_unlock_all_connections(w) ==
    [w EXCEPT !.h = [c \in DOMAIN w.h |->
                        IF c \in Referenced(w.pops) THEN [w.h[c] EXCEPT !.locked = FALSE]
                        ELSE w.h[c]]]

\* synapse_source is (dataset, edge population name); the reader of dataset
\* ds is ds itself
open_synapse_file(w, ds, pop_name, src_pop_id) ==
    _unlock_all_connections(
        _init_conn_population([w EXCEPT !.m.synapse_reader = ds], pop_name, src_pop_id))

\* nrn_path is (dataset, edge population name); the path is a valid file
init_synapse_location(w, ds, pop) ==
    LET names == _edge_to_node_population_names(pop)
        w1 == IF pop # <<>> THEN [w EXCEPT !.m.base_population = names[2]] ELSE w
        w2 == open_synapse_file(w1, ds, pop, 0)
    IN  IF pop # <<>> /\ names[1] # names[2]
        THEN MRes(w, NoConn, "raised")
        ELSE MRes([w2 EXCEPT !.m.by_src_nodes[NoneName] = Append(@, w2.m.cur)], NoConn, "")

(***************************************************************************)
(* _find_circuit_file.  A manager class is its CIRCUIT_FILENAMES and       *)
(* whether it brings a SynapseReader of its own; files are the names       *)
(* for which ospath.isfile(ospath.join(location, f)) holds.  A path is     *)
(* the sequence of its components.                                         *)
(***************************************************************************)


SynapseRuleManager_CIRCUIT_FILENAMES == <<"edges.sonata", "edges.h5", "circuit.syn2", "nrn.h5">>

GapJunctionManager_CIRCUIT_FILENAMES == <<"gj.sonata", "gj.syn2", "nrn_gj.h5">>

ManagerClass(filenames, own_reader) ==
    [CIRCUIT_FILENAMES |-> filenames, own_reader |-> own_reader]

SynapseRuleManager == ManagerClass(SynapseRuleManager_CIRCUIT_FILENAMES, FALSE)

GapJunctionManager == ManagerClass(GapJunctionManager_CIRCUIT_FILENAMES, FALSE)

\* (variant: the filenames are looked up in reverse search order)
files_avail_reversed(cls, files) ==
    LET IsFile(f) == f \in files
        n == Len(cls.CIRCUIT_FILENAMES)
    IN  SelectSeq([i \in 1..n |-> cls.CIRCUIT_FILENAMES[n + 1 - i]], IsFile)

\* [f for f in cls.CIRCUIT_FILENAMES if ospath.isfile(ospath.join(location, f))]
files_avail_of(cls, files) ==
    LET IsFile(f) == f \in files
    IN  SelectSeq(cls.CIRCUIT_FILENAMES, IsFile)

\* what a function returned, whether it raised and what it logged
FRes(ret, err, log) == [ret |-> ret, err |-> err, log |-> log]

_find_circuit_file(cls, location, files, syntool) ==
    LET compat_file == cls.CIRCUIT_FILENAMES[Len(cls.CIRCUIT_FILENAMES)]
        files_avail == files_avail_of(cls, files)
        can_read_newer_formats == IF cls.own_reader THEN TRUE ELSE syntool
    IN  IF files_avail = <<>> THEN FRes(<<>>, "ConfigurationError", {})
        ELSE IF ~can_read_newer_formats /\ compat_file \notin Range(files_avail)
        THEN FRes(<<>>, "ConfigurationError", {})
        ELSE IF Len(files_avail) > 1
        THEN FRes(Append(location, IF ~can_read_newer_formats THEN compat_file
                                   ELSE files_avail[1]),
                  "", {"warning: DEPRECATION"})
        ELSE FRes(Append(location, files_avail[1]), "", {})

(***************************************************************************)
(* The cells of this rank, the datasets a reader can be opened on and the  *)
(* targets of the TargetManager.  A table row is (sgid, synType); every    *)
(* table is sorted by sgid.                                                *)
(***************************************************************************)
local_gids == <<1, 2>>

Row(sgid, synType) == [sgid |-> sgid, synType |-> synType]

\* ACellSynReader: each cell connects to src gids tgid+1 and tgid+2
ACellSynReader == 3

Datasets ==
    << [t \in Targets |-> IF t = 1 THEN <<Row(1, 1), Row(5, 1)>> ELSE <<>>],
       [t \in Targets |-> IF t = 1 THEN <<Row(5, 1), Row(5, 2)>> ELSE <<Row(3, 1)>>],
       [t \in Targets |-> <<Row(t + 1, 0), Row(t + 2, 0)>>] >>

get_synapse_parameters(ds, tgid) == Datasets[ds][tgid]

TargetGids(name) ==
    CASE name = "A" -> {3, 5}
      [] name = "B" -> {1}
      [] name = "Mosaic" -> {1, 2, 3, 5}

getTarget(name) == TargetOf(TargetGids(name))

\* TargetSpec("population:name"); an absent part is None
TargetSpec(population, name) == [population |-> population, name |-> name]

\* `tname and self._target_manager.getTarget(tname)`
TargetOrNone(tname) == IF tname = NoneName THEN TargetNone ELSE getTarget(tname)

(***************************************************************************)
(* _add_synapses: a synapse keeps its id, the row it was built from and    *)
(* the dataset of that row                                                 *)
(***************************************************************************)
Synapse(ds, syn_params, syn_id) == [syn_id |-> syn_id, params |-> syn_params, ds |-> ds]

_add_synapses(w, cur_conn, syns_params, syn_type_restrict, base_id) ==
    LET all == [i \in 1..Len(syns_params) |->
                   Synapse(w.m.synapse_reader, syns_params[i], base_id + i - 1)]
        Kept(syn) == ~(syn_type_restrict # 0 /\ syn.params.synType # syn_type_restrict)
    IN  [w EXCEPT !.h[cur_conn].synapses = @ \o SelectSeq(all, Kept)]

(***************************************************************************)
(* The bodies of the loops of connect_all and connect_group over the       *)
(* tuples _iterate_conn_params yields for one target cell.  opt.group      *)
(* tells connect_group from connect_all.                                   *)
(***************************************************************************)
\* (variant: a locked connection is populated like any other)
skip_locked_never(opt, conn) == FALSE

\* connect_group's `if cur_conn.locked: continue`; connect_all has no such test
skip_locked(opt, conn) == opt.group /\ conn.locked

\* (variant: nothing is reported)
same_gid_warning_never(w, opt, sgid, tgid) == w

\* connect_group's `if sgid == tgid: logging.warning(...)`
same_gid_warning(w, opt, sgid, tgid) ==
    IF opt.group /\ sgid = tgid THEN Log(w, "warning: connection within same gid") ELSE w

\* (variant: the default population, whichever is selected)
first_population(w) == <<w.pops[1].src_id, w.pops[1].dst_id>>

\* `pop = self._cur_population`
cur_population(w) == w.m.cur

\* (variant: the connection is locked by either method)
lock_always(w, opt, cur_conn) == [w EXCEPT !.h[cur_conn].locked = TRUE]

\* connect_group's `cur_conn.locked = True`; connect_all has no such line
lock(w, opt, cur_conn) ==
    IF opt.group THEN [w EXCEPT !.h[cur_conn].locked = TRUE] ELSE w

RECURSIVE connect_tuples(_, _, _, _, _)
connect_tuples(w, tgid, table, tuples, opt) ==
    IF tuples = <<>> THEN w
    ELSE LET sgid == tuples[1][1]
             offset == tuples[1][2]
             syns_params == SubSeq(table, offset + 1, tuples[1][3])
             w0 == same_gid_warning(w, opt, sgid, tgid)
             pop == cur_population(w0)
             r == get_or_create_connection(w0.h, w0.pops[PopIdx(w0.pops, pop)], sgid, tgid,
                                           opt.weight_factor)
             w1 == SetPop([w0 EXCEPT !.h = r.h], pop, r.cs)
             w2 == IF skip_locked(opt, w1.h[r.ret]) THEN w1
                   ELSE lock(_add_synapses(w1, r.ret, syns_params, opt.restrict, offset),
                             opt, r.ret)
         IN  connect_tuples(w2, tgid, table, Tail(tuples), opt)

\* `for tgid in gids` of _iterate_conn_params together with the caller's
\* loop body; a manager without reader fails on the first cell it reads
RECURSIVE iterate_gids(_, _, _, _, _)
iterate_gids(w, gids, src_target, dst_target, opt) ==
    IF gids = <<>> THEN MRes(w, NoConn, "")
    ELSE LET tgid == gids[1]
         IN  IF dst_target.k # "none" /\ ~completeContains(dst_target, tgid)
             THEN iterate_gids(w, Tail(gids), src_target, dst_target, opt)
             ELSE IF w.m.synapse_reader = 0 THEN MRes(w, NoConn, "raised")
             ELSE LET table == get_synapse_parameters(w.m.synapse_reader, tgid)
                      sgids == [i \in 1..Len(table) |-> table[i].sgid]
                      tuples == scan_all(StartScan(sgids, src_target))
                  IN  iterate_gids(connect_tuples(w, tgid, table, tuples, opt),
                                   Tail(gids), src_target, dst_target, opt)

_iterate_conn_params(w, src_target, dst_target, gids, opt) ==
    LET r == iterate_gids(w, gids, src_target, dst_target, opt)
        created_conns == count(Cur(r.w)) - count(Cur(w))
    IN  IF r.err # "" THEN r
        ELSE MRes([r.w EXCEPT !.m.total_connections = @ + created_conns], NoConn, "")

\* (variant: the sources are never filtered)
src_target_filter_none(w, only_sgid_in_target) == TargetNone

\* `self._circuit_target if only_sgid_in_target else None`
src_target_filter(w, only_sgid_in_target) ==
    IF only_sgid_in_target THEN w.m.circuit_target ELSE TargetNone

\* (variant: the fallback loads nothing)
connect_all_nothing(w, weight_factor, only_gids, only_sgid_in_target) == MRes(w, NoConn, "")

connect_all(w, weight_factor, only_gids, only_sgid_in_target) ==
    _iterate_conn_params(
        w,
        src_target_filter(w, only_sgid_in_target),
        TargetNone,
        IF only_gids.k = "none" THEN local_gids ELSE only_gids.v,
        [group |-> FALSE, weight_factor |-> weight_factor, restrict |-> 0])

connect_group(w, src_target_name, dst_target_name, synapse_type_restrict) ==
    _iterate_conn_params(
        w,
        TargetOrNone(src_target_name.name),
        TargetOrNone(dst_target_name.name),
        local_gids,
        [group |-> TRUE, weight_factor |-> 1, restrict |-> synapse_type_restrict])

(***************************************************************************)
(* create_connections over SimConfig.connections, the Connection blocks in *)
(* configuration order.  A block has Source and Destination target specs,  *)
(* Weight, SynapseID (0: absent), and tells whether it has a Delay and      *)
(* whether its CreateMode is NoCreate.                                     *)
(***************************************************************************)
\* TargetSpec.match_filter(pop, target_name, is_base_population)
match_filter(spec, pop, target_name, is_base_population) ==
    /\ spec.population = pop \/ (is_base_population /\ spec.population = NoneName)
    /\ target_name \in {NoneName, spec.name}

\* (variant: the single matching block is not looked at)
single_zero_weight_never(matching_conns) == FALSE

\* `len(matching_conns) == 1 and matching_conns[0].valueOf("Weight") == .0`
single_zero_weight(matching_conns) ==
    Len(matching_conns) = 1 /\ matching_conns[1].Weight = 0

\* (variant: every matching block creates connections)
skip_rule_never(conn_conf) == FALSE

\* `if "Delay" in conn_conf: continue` and
\* `if conn_conf.get("CreateMode") == "NoCreate": continue`
skip_rule(conn_conf) == conn_conf.Delay \/ conn_conf.CreateMode = "NoCreate"

\* `for conn_conf in matching_conns`; calls is what has been invoked so far
RECURSIVE create_groups(_, _, _)
create_groups(w, confs, calls) ==
    IF confs = <<>> THEN MRes(w, calls, "")
    ELSE LET conn_conf == confs[1]
         IN  IF skip_rule(conn_conf)
             THEN create_groups(w, Tail(confs), calls)
             ELSE LET r == connect_group(w, conn_conf.Source, conn_conf.Destination,
                                         conn_conf.SynapseID)
                      done == Append(calls, <<"connect_group", conn_conf.Source,
                                              conn_conf.Destination, conn_conf.SynapseID>>)
                  IN  IF r.err # "" THEN MRes(r.w, done, r.err)
                      ELSE create_groups(r.w, Tail(confs), done)

create_connections(w, connections, src_target) ==
    LET conn_src_pop == Cur(w).src_name
        is_base_pop == Cur(w).src_id = 0
        Matches(conn) == match_filter(conn.Source, conn_src_pop, src_target, is_base_pop)
        matching_conns == SelectSeq(connections, Matches)
    IN  IF matching_conns = <<>>
        THEN LET r == connect_all(w, 1, SelNone, FALSE)
             IN  MRes(r.w, <<<<"connect_all">>>>, r.err)
        ELSE IF single_zero_weight(matching_conns)
        THEN MRes(Log(w, "warning: skipping connection create"), <<>>, "")
        ELSE create_groups(w, matching_conns, <<>>)

(***************************************************************************)
(* Population selectors: None, an int (source id) or a tuple whose parts   *)
(* may be None                                                             *)
(***************************************************************************)
PopSelNone == [k |-> "none", src |-> NoneId, dst |-> NoneId]
PopSelInt(x) == [k |-> "int", src |-> x, dst |-> NoneId]
PopSelTuple(src, dst) == [k |-> "tuple", src |-> src, dst |-> dst]

\* (variant: every population matches)
ids_match_any(cs, population_ids) == TRUE

ids_match(cs, population_ids) ==
    /\ population_ids.src = NoneId \/ population_ids.src = cs.src_id
    /\ population_ids.dst = NoneId \/ population_ids.dst = cs.dst_id

PopKey(cs) == <<cs.src_id, cs.dst_id>>

\* the keys of the selected populations; a fully specified tuple is looked
\* up in the dict and raises KeyError when it is not registered
find_populations(w, population_ids) ==
    IF population_ids.k = "tuple" /\ population_ids.src # NoneId /\ population_ids.dst # NoneId
    THEN IF PopHas(w.pops, <<population_ids.src, population_ids.dst>>)
         THEN MRes(w, <<<<population_ids.src, population_ids.dst>>>>, "")
         ELSE MRes(w, <<>>, "raised")
    ELSE LET Matching(cs) == ids_match(cs, population_ids)
             sel == SelectSeq(w.pops, Matching)
         IN  MRes(w, [i \in 1..Len(sel) |-> PopKey(sel[i])], "")

(***************************************************************************)
(* delete, disable and reenable of the manager.  Connection.disable and    *)
(* Connection.enable set and clear the disabled flag; zeroing conductances *)
(* acts on instantiated synapses only.                                     *)
(***************************************************************************)
Connection_disable(conn) == [conn EXCEPT !.disabled = TRUE]

Connection_enable(conn) == [conn EXCEPT !.disabled = FALSE]

RECURSIVE delete_loop(_, _, _, _)
delete_loop(w, keys, sgid, tgid) ==
    IF keys = <<>> THEN MRes(w, NoConn, "")
    ELSE LET d == cs_delete(w.h, w.pops[PopIdx(w.pops, keys[1])], sgid, tgid)
             w1 == SetPop([w EXCEPT !.h = d.h], keys[1], d.cs)
         IN  delete_loop(IF d.err = "" THEN w1 ELSE Log(w1, "warning: non-existing connection"),
                         Tail(keys), sgid, tgid)

delete(w, sgid, tgid, population_ids) ==
    LET f == find_populations(w, population_ids)
    IN  IF f.err # "" THEN f ELSE delete_loop(w, f.ret, sgid, tgid)

\* `for pop in ...` of disable: get_connection gives None for a pair the
\* population does not store, and None has no disable()
RECURSIVE disable_loop(_, _, _, _)
disable_loop(w, keys, sgid, tgid) ==
    IF keys = <<>> THEN MRes(w, NoConn, "")
    ELSE LET g == get_connection(w.h, w.pops[PopIdx(w.pops, keys[1])], sgid, tgid)
             w1 == SetPop([w EXCEPT !.h = g.h], keys[1], g.cs)
             c == g.ret
         IN  IF c = NoConn THEN MRes(w1, NoConn, "raised")
             ELSE disable_loop([w1 EXCEPT !.h[c] = Connection_disable(@),
                                          !.m.disabled_conns[tgid] = Append(@, c)],
                               Tail(keys), sgid, tgid)

disable(w, sgid, tgid, population_ids) ==
    LET f == find_populations(w, population_ids)
    IN  IF f.err # "" THEN f ELSE disable_loop(w, f.ret, sgid, tgid)

\* (variant: the registry keeps every entry)
numpy_delete_nothing(arr, obj) == arr

\* numpy.delete(arr, obj).tolist() for positions obj within arr
numpy_delete(arr, obj) == KeepNotAt(arr, obj, 0)

reenable(w, sgid, tgid, population_ids) ==
    LET f == find_populations(w, population_ids)
        allowed_pops == Range(f.ret)
        registry == w.m.disabled_conns[tgid]
        delete_indexes == {i \in 0..(Len(registry) - 1) :
                              /\ w.h[registry[i + 1]].sgid = sgid
                              /\ w.h[registry[i + 1]].population_id \in allowed_pops}
        enabled == {registry[i + 1] : i \in delete_indexes}
    IN  IF f.err # "" THEN f
        ELSE MRes([w EXCEPT !.h = [c \in DOMAIN w.h |->
                                      IF c \in enabled THEN Connection_enable(w.h[c])
                                      ELSE w.h[c]],
                            !.m.disabled_conns[tgid] = numpy_delete(registry, delete_indexes)],
                  NoConn, "")

\* `for tgid in post_gids` of reenable_group
RECURSIVE reenable_group_loop(_, _, _, _)
reenable_group_loop(w, post_gids, pre_gids, allowed_pops) ==
    IF post_gids = <<>> THEN MRes(w, NoConn, "")
    ELSE LET tgid == post_gids[1]
             registry == w.m.disabled_conns[tgid]
             to_delete == {i \in 0..(Len(registry) - 1) :
                              /\ w.h[registry[i + 1]].sgid \in pre_gids
                              /\ w.h[registry[i + 1]].population_id \in allowed_pops}
             enabled == {registry[i + 1] : i \in to_delete}
         IN  reenable_group_loop(
                 [w EXCEPT !.h = [c \in DOMAIN w.h |->
                                     IF c \in enabled THEN Connection_enable(w.h[c])
                                     ELSE w.h[c]],
                           !.m.disabled_conns[tgid] = numpy_delete(registry, to_delete)],
                 Tail(post_gids), pre_gids, allowed_pops)

\* post_gids is None or a list; set(pre_gids) raises TypeError unless
\* pre_gids is a list
reenable_group(w, post_gids, pre_gids, population_ids) ==
    LET f == find_populations(w, population_ids)
    IN  IF pre_gids.k # "list" THEN MRes(w, NoConn, "raised")
        ELSE IF f.err # "" THEN f
        ELSE reenable_group_loop(w, IF post_gids.k = "none" THEN local_gids ELSE post_gids.v,
                                 Range(pre_gids.v), Range(f.ret))

(***************************************************************************)
(* Specification of a SynapseRuleManager loading connectivity: datasets    *)
(* are opened and connections created from them                            *)
(***************************************************************************)
TheWorld == World(heap, populations, mgr)

\* the manager as an operation finds it: nothing reported yet
Fresh(w) == [w EXCEPT !.m.log = {}]

\* the handles the manager holds: its populations and its disabled registry
MgrRefs(w) ==
    Referenced(w.pops) \cup UNION {Range(w.m.disabled_conns[t]) : t \in DOMAIN w.m.disabled_conns}

\* what the caller saw of a manager method: whether it raised, the objects
\* it built or changed and by how much connection_count moved
MgrOp(name, r, w0) ==
    [op |-> name, err |-> r.err,
     dcount |-> r.w.m.total_connections - w0.m.total_connections,
     changed |-> {c \in DOMAIN r.w.h : c \notin DOMAIN w0.h \/ r.w.h[c] # w0.h[c]}]

\* the step is method `name` of the manager with result r
MgrStep(name, r) ==
    /\ heap' = Collect(r.w.h, MgrRefs(r.w))
    /\ populations' = r.w.pops
    /\ mgr' = r.w.m
    /\ last' = MgrOp(name, r, TheWorld)
    /\ UNCHANGED <<scan, ranks, env>>

\* the synapses attached to the objects cs of the heap
RECURSIVE SynapsesOf(_, _)
SynapsesOf(h, cs) ==
    IF cs = {} THEN 0
    ELSE LET c == CHOOSE x \in cs : TRUE
         IN  Len(h[c].synapses) + SynapsesOf(h, cs \ {c})

SynapseCount(h) == SynapsesOf(h, DOMAIN h)

MgrApply(name, r) ==
    /\ SynapseCount(r.w.h) <= MaxSyns
    /\ MgrStep(name, r)

\* SynapseRuleManager.__init__ with an nrnPath without population
InitLoad ==
    LET r == init_synapse_location(World(<<>>, <<ConnectionSetInit(0, 0)>>, ManagerInit),
                                   1, <<>>)
    IN  /\ heap = r.w.h
        /\ populations = r.w.pops
        /\ mgr = r.w.m
        /\ last = NoOp
        /\ scan = NoScan
        /\ ranks = <<>>
        /\ env = NoEnv

SynapseSources == {1, 2} \X {<<>>}

PathwaySources == {TargetSpec(NoneName, NoneName), TargetSpec(NoneName, "A")}

PathwayDestinations == {TargetSpec(NoneName, NoneName), TargetSpec(NoneName, "B")}

SynapseTypes == {0, 2}

Block(src, dst, weight, syn_id, delay, mode) ==
    [Source |-> src, Destination |-> dst, Weight |-> weight, SynapseID |-> syn_id,
     Delay |-> delay, CreateMode |-> mode]

Blocks ==
    {Block(TargetSpec(NoneName, "Mosaic"), TargetSpec(NoneName, "Mosaic"), 2, 0, FALSE, ""),
     Block(TargetSpec(NoneName, "A"), TargetSpec(NoneName, "B"), 0, 0, FALSE, ""),
     Block(TargetSpec("Proj", "A"), TargetSpec(NoneName, "B"), 0, 2, FALSE, ""),
     Block(TargetSpec(NoneName, "A"), TargetSpec(NoneName, "B"), 1, 0, TRUE, ""),
     Block(TargetSpec(NoneName, "Mosaic"), TargetSpec(NoneName, "B"), 1, 0, FALSE, "NoCreate")}

MaxBlocks == 2          \* Connection blocks of the configuration

OpenSynapseFile ==
    \E src \in SynapseSources :
        MgrApply("open_synapse_file",
                 MRes(open_synapse_file(Fresh(TheWorld), src[1], src[2], NoneId), NoConn, ""))

ConnectAll ==
    MgrApply("connect_all", connect_all(Fresh(TheWorld), 1, SelNone, FALSE))

ConnectGroup ==
    \E src \in PathwaySources, dst \in PathwayDestinations, syn_type \in SynapseTypes :
        MgrApply("connect_group", connect_group(Fresh(TheWorld), src, dst, syn_type))

\* SimConfig.connections: up to MaxBlocks different blocks in any order
Configurations ==
    {c \in SeqsUpTo(Blocks, MaxBlocks) : \A i, j \in 1..Len(c) : i # j => c[i] # c[j]}

\* the caller does not get the calls back; they are kept to tell what the
\* method did
CreateApply(name, r) ==
    /\ SynapseCount(r.w.h) <= MaxSyns
    /\ heap' = Collect(r.w.h, MgrRefs(r.w))
    /\ populations' = r.w.pops
    /\ mgr' = r.w.m
    /\ last' = [op |-> name, err |-> r.err, calls |-> r.ret,
                dcount |-> r.w.m.total_connections - mgr.total_connections,
                changed |-> {c \in DOMAIN r.w.h : c \notin DOMAIN heap \/ r.w.h[c] # heap[c]}]
    /\ UNCHANGED <<scan, ranks, env>>

CreateConnections ==
    \E connections \in Configurations, src_target \in {NoneName, "A"} :
        CreateApply("create_connections",
                    create_connections(Fresh(TheWorld), connections, src_target))

NextLoad == OpenSynapseFile \/ ConnectAll \/ ConnectGroup

SpecLoad == InitLoad /\ [][NextLoad]_vars

\* a manager driven by the connection blocks of the configuration
NextCreate == OpenSynapseFile \/ CreateConnections

SpecCreate == InitLoad /\ [][NextCreate]_vars

(***************************************************************************)
(* Specification of a manager whose connections are disabled, re-enabled   *)
(* and deleted once base connectivity and a projection have been loaded    *)
(***************************************************************************)
\* base connectivity from dataset 1, then possibly a projection from dataset 2
LoadedBase ==
    connect_all(init_synapse_location(World(<<>>, <<ConnectionSetInit(0, 0)>>, ManagerInit),
                                      1, BaseEdges).w,
                1, SelNone, FALSE).w

LoadedProjection ==
    connect_all(open_synapse_file(LoadedBase, 2, ProjEdges, NoneId), 1, SelNone, FALSE).w

InitToggle ==
    \E w \in {LoadedBase, LoadedProjection} :
        /\ heap = w.h
        /\ populations = w.pops
        /\ mgr = w.m
        /\ last = NoOp
        /\ scan = NoScan
        /\ ranks = <<>>
        /\ env = NoEnv

\* (sgid, tgid) arguments: the pairs the datasets hold, and one they do not
Pairs == {<<1, 1>>, <<5, 1>>, <<3, 2>>, <<3, 1>>}

\* population selectors: all, the base, the projection, one never registered
PopSelectors ==
    {PopSelNone, PopSelInt(0), PopSelTuple(make_id("Proj"), 0),
     PopSelTuple(make_id("NodeB"), 0)}

ToggleApply(name, r) ==
    /\ \A t \in DOMAIN r.w.m.disabled_conns : Len(r.w.m.disabled_conns[t]) <= MaxDisabled
    /\ MgrStep(name, r)

Disable ==
    \E p \in Pairs, sel \in PopSelectors :
        ToggleApply("disable", disable(Fresh(TheWorld), p[1], p[2], sel))

Reenable ==
    \E p \in Pairs, sel \in PopSelectors :
        ToggleApply("reenable", reenable(Fresh(TheWorld), p[1], p[2], sel))

ManagerDelete ==
    \E p \in Pairs, sel \in PopSelectors :
        ToggleApply("delete", delete(Fresh(TheWorld), p[1], p[2], sel))

NextToggle == Disable \/ Reenable \/ ManagerDelete

SpecToggle == InitToggle /\ [][NextToggle]_vars

(***************************************************************************)
(* Specification of a manager whose connections are disabled and           *)
(* re-enabled, one by one and by group                                     *)
(***************************************************************************)
\* post_gids and pre_gids of reenable_group
GroupPostGids == {SelNone, SelList(<<1>>), SelList(<<2, 1>>)}

GroupPreGids == {SelNone, SelList(<<5>>), SelList(<<1, 3>>), SelList(<<3, 5, 1>>)}

ReenableGroup ==
    \E post_gids \in GroupPostGids, pre_gids \in GroupPreGids, sel \in PopSelectors :
        ToggleApply("reenable_group",
                    reenable_group(Fresh(TheWorld), post_gids, pre_gids, sel))

NextReenable == Disable \/ Reenable \/ ReenableGroup

SpecReenable == InitToggle /\ [][NextReenable]_vars

(***************************************************************************)
(* Configuration of existing connections: configure_group,                 *)
(* update_connections and setup_delayed_connection over the connections    *)
(* get_target_connections yields.  The setters of Connection record what   *)
(* they were given.                                                        *)
(***************************************************************************)
NoneWeight == -1

\* Connection.add_synapse_configuration / configure_synapses
Connection_configure(h, c, syn_configure) ==
    [h EXCEPT ![c].synapse_configurations = Append(@, syn_configure)]

\* Connection.update_weights
Connection_update_weights(h, c, weight) == [h EXCEPT ![c].netcon_weight = weight]

\* Connection.add_delayed_weight
Connection_add_delayed_weight(h, c, delay, weight) ==
    [h EXCEPT ![c].delayed_weights = Append(@, <<delay, weight>>)]

_find_conn_populations_nodesets(w, src_pop, dst_pop) ==
    LET by_src == w.m.by_src_nodes[src_pop]
        OfDst(key) == w.pops[PopIdx(w.pops, key)].dst_name = dst_pop
    IN  IF dst_pop # NoneName THEN SelectSeq(by_src, OfDst) ELSE by_src

\* (variant: the sources are not filtered)
target_conns_of_all(h, conns, src_target) == conns

\* `for conn in population[tgid]` with the source filter
target_conns_of(h, conns, src_target) ==
    LET Wanted(c) == src_target.k = "none" \/ completeContains(src_target, h[c].sgid)
    IN  SelectSeq(conns, Wanted)

\* `for tgid in gidvec` over one population
RECURSIVE target_conns_gids(_, _, _, _, _)
target_conns_gids(h, cs, gidvec, src_target, dst_target) ==
    IF gidvec = <<>> THEN <<>>
    ELSE LET tgid == gidvec[1]
             here == IF ~completeContains(dst_target, tgid) \/ ~MapHas(cs.cmap, tgid)
                     THEN <<>>
                     ELSE target_conns_of(h, MapGet(cs.cmap, tgid), src_target)
         IN  here \o target_conns_gids(h, cs, Tail(gidvec), src_target, dst_target)

\* `for population in populations`
RECURSIVE target_conns_pops(_, _, _, _, _)
target_conns_pops(w, keys, gidvec, src_target, dst_target) ==
    IF keys = <<>> THEN <<>>
    ELSE target_conns_gids(w.h, w.pops[PopIdx(w.pops, keys[1])], gidvec, src_target,
                           dst_target)
         \o target_conns_pops(w, Tail(keys), gidvec, src_target, dst_target)

\* the connections the generator yields, in order; conn_population is None
get_target_connections(w, src_target_name, dst_target_name, gidvec) ==
    LET src_target == TargetOrNone(src_target_name.name)
        dst_target == getTarget(dst_target_name.name)
        gids == IF gidvec.k = "none" THEN local_gids ELSE gidvec.v
        found == _find_conn_populations_nodesets(w, src_target_name.population,
                                                       dst_target_name.population)
    IN  IF found = <<>>
        THEN MRes(Log(w, "warning: no connections between node populations"), <<>>, "")
        ELSE MRes(w, target_conns_pops(w, found, gids, src_target, dst_target), "")

\* a Connection block as configure_connections hands it over: Weight,
\* SpontMinis and Delay are NoneWeight and SynapseConfigure is "" when absent
ConnConfig(src, dst, weight, spont_minis, syn_configure, delay) ==
    [Source |-> src, Destination |-> dst, Weight |-> weight, SpontMinis |-> spont_minis,
     SynapseConfigure |-> syn_configure, Delay |-> delay]

\* the body of configure_group's loop for one connection
configure_conn(h, c, conn_config) ==
    LET h1 == IF conn_config.Weight # NoneWeight
              THEN [h EXCEPT ![c].weight_factor = conn_config.Weight] ELSE h
        h2 == IF conn_config.SpontMinis # NoneWeight
              THEN [h1 EXCEPT ![c].minis_spont_rate = conn_config.SpontMinis] ELSE h1
    IN  IF conn_config.SynapseConfigure # ""
        THEN Connection_configure(h2, c, conn_config.SynapseConfigure) ELSE h2

RECURSIVE configure_loop(_, _, _)
configure_loop(h, conns, conn_config) ==
    IF conns = <<>> THEN h
    ELSE configure_loop(configure_conn(h, conns[1], conn_config), Tail(conns), conn_config)

configure_group(w, conn_config, gidvec) ==
    LET r == get_target_connections(w, conn_config.Source, conn_config.Destination, gidvec)
    IN  MRes([r.w EXCEPT !.h = configure_loop(r.w.h, r.ret, conn_config)], NoConn, "")

\* the body of update_connections' loop for one connection
update_conn(h, c, syn_configure, weight) ==
    LET h1 == IF weight # NoneWeight THEN Connection_update_weights(h, c, weight) ELSE h
    IN  IF syn_configure # "" THEN Connection_configure(h1, c, syn_configure) ELSE h1

RECURSIVE update_loop(_, _, _, _)
update_loop(h, conns, syn_configure, weight) ==
    IF conns = <<>> THEN h
    ELSE update_loop(update_conn(h, conns[1], syn_configure, weight), Tail(conns),
                     syn_configure, weight)

\* **syn_params is empty
update_connections(w, src_target, dst_target, gidvec, syn_configure, weight) ==
    IF syn_configure = "" /\ weight = NoneWeight
    THEN MRes(Log(w, "warning: no synapse parameters being updated"), NoConn, "")
    ELSE LET r == get_target_connections(w, src_target, dst_target, gidvec)
         IN  MRes([r.w EXCEPT !.h = update_loop(r.w.h, r.ret, syn_configure, weight)],
                  NoConn, "")

RECURSIVE delayed_loop(_, _, _, _)
delayed_loop(h, conns, delay, new_weight) ==
    IF conns = <<>> THEN h
    ELSE delayed_loop(Connection_add_delayed_weight(h, conns[1], delay, new_weight),
                      Tail(conns), delay, new_weight)

\* SynapseRuleManager.setup_delayed_connection
setup_delayed_connection(w, conn_config) ==
    LET new_weight == IF conn_config.Weight = NoneWeight THEN 0 ELSE conn_config.Weight
        r == get_target_connections(w, conn_config.Source, conn_config.Destination, SelNone)
    IN  MRes([r.w EXCEPT !.h = delayed_loop(r.w.h, r.ret, conn_config.Delay, new_weight)],
             NoConn, "")

(***************************************************************************)
(* SynapseRuleManager.replay.  spike_manager maps source gids to their     *)
(* spike times; t is Nd.t.  Connection.replay attaches a stimulus with the *)
(* spike times and the start time to the connection.                       *)
(***************************************************************************)
Connection_replay(h, c, tvec, start_delay) ==
    [h EXCEPT ![c].replays = Append(@, [tvec |-> tvec, start_delay |-> start_delay])]

\* (variant: the requested start is used as it is)
clamp_start_never(t, start_delay) == start_delay

\* `if Nd.t > start_delay: start_delay = Nd.t`
clamp_start(t, start_delay) == IF t > start_delay THEN t ELSE start_delay

\* the loop of replay: h is the heap, n is replayed_count
RECURSIVE replay_loop(_, _, _, _, _)
replay_loop(h, n, conns, spike_manager, start_delay) ==
    IF conns = <<>> THEN [h |-> h, replayed_count |-> n]
    ELSE IF h[conns[1]].sgid \notin DOMAIN spike_manager
    THEN replay_loop(h, n, Tail(conns), spike_manager, start_delay)
    ELSE replay_loop(Connection_replay(h, conns[1], spike_manager[h[conns[1]].sgid],
                                       start_delay),
                     n + 1, Tail(conns), spike_manager, start_delay)

\* replay once the pathway's connections are found; this rank is the only
\* one, so MPI.allreduce returns replayed_count
replay_found(found, done) ==
    MRes(IF done.replayed_count = 0
         THEN Log([found.w EXCEPT !.h = done.h], "warning: no replay injected")
         ELSE [found.w EXCEPT !.h = done.h],
         done.replayed_count, "")

replay_conns(found, spike_manager, start_delay) ==
    replay_found(found, replay_loop(found.w.h, 0, found.ret, spike_manager, start_delay))

replay(w, t, spike_manager, src_target_name, dst_target_name, start_delay) ==
    replay_conns(get_target_connections(w, src_target_name, dst_target_name, SelNone),
                 spike_manager, clamp_start(t, start_delay))

(***************************************************************************)
(* Specification of a manager whose loaded connections are configured      *)
(***************************************************************************)
MaxConfigured == 2      \* synapse configurations and delayed weights recorded in all

\* the pathways of the Connection blocks: by target, by population, everything
ConfigSources ==
    {TargetSpec(NoneName, "A"), TargetSpec("Proj", "A"), TargetSpec(NoneName, NoneName),
     TargetSpec("NodeB", NoneName)}

ConfigDestinations == {TargetSpec(NoneName, "B"), TargetSpec("NodeA", "Mosaic")}

ConnConfigs ==
    {ConnConfig(src, dst, s[1], s[2], s[3], NoneWeight) :
        src \in ConfigSources, dst \in ConfigDestinations,
        s \in {<<2, NoneWeight, "cfg">>, <<NoneWeight, 1, "">>}}

DelayedConfigs ==
    {ConnConfig(src, dst, weight, NoneWeight, "", 10) :
        src \in ConfigSources, dst \in ConfigDestinations, weight \in {NoneWeight, 2}}

GidVecs == {SelNone, SelList(<<1>>)}

\* (syn_configure, weight) of update_connections
Updates == {<<"", NoneWeight>>, <<"cfg", 3>>}

RECURSIVE ConfiguredOf(_, _)
ConfiguredOf(h, cs) ==
    IF cs = {} THEN 0
    ELSE LET c == CHOOSE x \in cs : TRUE
         IN  Len(h[c].synapse_configurations) + Len(h[c].delayed_weights)
             + ConfiguredOf(h, cs \ {c})

ConfigureApply(name, r) ==
    /\ ConfiguredOf(r.w.h, DOMAIN r.w.h) <= MaxConfigured
    /\ MgrStep(name, r)

ConfigureGroup ==
    \E conn_config \in ConnConfigs, gidvec \in GidVecs :
        ConfigureApply("configure_group", configure_group(Fresh(TheWorld), conn_config, gidvec))

UpdateConnections ==
    \E src \in ConfigSources, dst \in ConfigDestinations, gidvec \in GidVecs,
       u \in Updates :
        ConfigureApply("update_connections",
                       update_connections(Fresh(TheWorld), src, dst, gidvec, u[1], u[2]))

SetupDelayedConnection ==
    \E conn_config \in DelayedConfigs :
        ConfigureApply("setup_delayed_connection",
                       setup_delayed_connection(Fresh(TheWorld), conn_config))

NextConfigure == ConfigureGroup \/ UpdateConnections \/ SetupDelayedConnection

SpecConfigure == InitToggle /\ [][NextConfigure]_vars

(***************************************************************************)
(* Specification of a manager injecting replay while the simulation time   *)
(* advances                                                                *)
(***************************************************************************)
MaxTime == 3            \* simulation time reached
MaxReplays == 2         \* replay stimuli attached to the connections

\* spike maps: of source 5, and of sources 1 and 3
SpikeMaps == {[g \in {5} |-> <<1, 4>>], [g \in {1, 3} |-> <<2>>]}

StartDelays == {0, 2}

RECURSIVE ReplaysOf(_, _)
ReplaysOf(h, cs) ==
    IF cs = {} THEN 0
    ELSE LET c == CHOOSE x \in cs : TRUE
         IN  Len(h[c].replays) + ReplaysOf(h, cs \ {c})

\* the simulation runs: Nd.t moves on
Advance ==
    /\ env.t < MaxTime
    /\ env' = [env EXCEPT !.t = @ + 1]
    /\ UNCHANGED <<heap, populations, mgr, last, scan, ranks>>

\* pathways of the replay: from target A of the base connectivity, from
\* target A of the projection's source nodes, from anywhere
ReplaySources ==
    {TargetSpec(NoneName, "A"), TargetSpec("Proj", "A"), TargetSpec(NoneName, NoneName)}

ReplayStep(r) ==
    /\ ReplaysOf(r.w.h, DOMAIN r.w.h) <= MaxReplays
    /\ heap' = r.w.h
    /\ populations' = r.w.pops
    /\ mgr' = r.w.m
    /\ last' = [op |-> "replay", ret |-> r.ret, err |-> r.err, dcount |-> 0,
                changed |-> {c \in DOMAIN heap : r.w.h[c] # heap[c]}]
    /\ UNCHANGED <<scan, ranks, env>>

Replay ==
    \E spike_manager \in SpikeMaps, src \in ReplaySources, dst \in ConfigDestinations,
       start_delay \in StartDelays :
        ReplayStep(replay(Fresh(TheWorld), env.t, spike_manager, src, dst, start_delay))

NextReplay == Advance \/ Replay

SpecReplay == InitToggle /\ [][NextReplay]_vars

(***************************************************************************)
(* Specification of finalize on the ranks of a parallel run.  Every rank   *)
(* holds its own connection lists (one per population and target cell,     *)
(* here by their lengths), instantiates them list by list and then joins   *)
(* MPI.allreduce(n_created_conns, MPI.SUM).  The reduction is collective:  *)
(* it returns, on every rank, the sum of what all ranks handed in, once    *)
(* all of them have.                                                       *)
(***************************************************************************)
\* the lengths of the connection lists of rank r
RankConns(r) ==
    IF r = 1 THEN <<2, 2>> ELSE IF r = 3 THEN <<2, 1>> ELSE <<>>

RankInit(r) ==
    [pc |-> "loaded", is_file_open |-> TRUE, pending |-> RankConns(r),
     n_created_conns |-> 0, finalized |-> <<>>, sent |-> NoneId,
     all_ranks_total |-> NoneId]

InitFinalize ==
    /\ heap = <<>>
    /\ populations = <<ConnectionSetInit(0, 0)>>
    /\ mgr = ManagerInit
    /\ last = NoOp
    /\ scan = NoScan
    /\ ranks = [r \in 1..NRanks |-> RankInit(r)]
    /\ env = NoEnv

\* (variant: the count of the last list replaces the running count)
accumulate_last(n_created_conns, finalized_conns) == finalized_conns

\* `n_created_conns += self._finalize_conns(...)`
accumulate(n_created_conns, finalized_conns) == n_created_conns + finalized_conns

\* `self._synapse_reader = None; n_created_conns = 0`
FinalizeBegin(r) ==
    /\ ranks[r].pc = "loaded"
    /\ ranks' = [ranks EXCEPT ![r].pc = "instantiating", ![r].is_file_open = FALSE,
                              ![r].n_created_conns = 0]
    /\ UNCHANGED <<heap, populations, mgr, last, scan, env>>

\* one call of _finalize_conns: it reports how many connections of the list
\* were instantiated
FinalizeConns(r) ==
    /\ ranks[r].pc = "instantiating"
    /\ ranks[r].pending # <<>>
    /\ \E n \in 0..Head(ranks[r].pending) :
           ranks' = [ranks EXCEPT ![r].pending = Tail(@),
                                  ![r].finalized = Append(@, n),
                                  ![r].n_created_conns = accumulate(@, n)]
    /\ UNCHANGED <<heap, populations, mgr, last, scan, env>>

\* the rank calls MPI.allreduce and hands its count in
AllreduceEnter(r) ==
    /\ ranks[r].pc = "instantiating"
    /\ ranks[r].pending = <<>>
    /\ ranks' = [ranks EXCEPT ![r].pc = "reducing", ![r].sent = ranks[r].n_created_conns]
    /\ UNCHANGED <<heap, populations, mgr, last, scan, env>>

\* MPI.allreduce returns and finalize returns its result
AllreduceReturn(r) ==
    /\ ranks[r].pc = "reducing"
    /\ \A q \in 1..NRanks : ranks[q].sent # NoneId
    /\ ranks' = [ranks EXCEPT ![r].pc = "returned",
                              ![r].all_ranks_total = SumSeq([q \in 1..NRanks |-> ranks[q].sent])]
    /\ UNCHANGED <<heap, populations, mgr, last, scan, env>>

NextFinalize ==
    \E r \in 1..NRanks :
        FinalizeBegin(r) \/ FinalizeConns(r) \/ AllreduceEnter(r) \/ AllreduceReturn(r)

SpecFinalize == InitFinalize /\ [][NextFinalize]_vars

(***************************************************************************)
(* Specification of a parallel run in which a rank may fail.  An exception *)
(* raised on a rank, while it loads or inside _finalize_conns, leaves      *)
(* finalize: nothing in finalize catches it and the rank never calls       *)
(* MPI.allreduce.  What happens to the other ranks then is up to whoever   *)
(* started the run, who may stop all of them.                              *)
(***************************************************************************)
\* an exception propagates out of the rank's work before the reduction
Raise(r) ==
    /\ ranks[r].pc \in {"loaded", "instantiating"}
    /\ ranks' = [ranks EXCEPT ![r].pc = "raised"]
    /\ UNCHANGED <<heap, populations, mgr, last, scan, env>>

\* the run is stopped from outside after a rank has failed
AbortRun ==
    /\ \E q \in 1..NRanks : ranks[q].pc = "raised"
    /\ \E q \in 1..NRanks : ranks[q].pc \notin {"raised", "aborted"}
    /\ ranks' = [q \in 1..NRanks |->
                    IF ranks[q].pc = "raised" THEN ranks[q]
                    ELSE [ranks[q] EXCEPT !.pc = "aborted"]]
    /\ UNCHANGED <<heap, populations, mgr, last, scan, env>>

\* what rank r does by itself
RankStep(r) ==
    FinalizeBegin(r) \/ FinalizeConns(r) \/ AllreduceEnter(r) \/ AllreduceReturn(r)

NextFailure == (\E r \in 1..NRanks : RankStep(r) \/ Raise(r)) \/ AbortRun

SpecFailure == InitFinalize /\ [][NextFailure]_vars

\* every rank keeps running its own code; neither a failure nor a stop from
\* outside is bound to happen
SpecFailureLive == SpecFailure /\ \A r \in 1..NRanks : WF_vars(RankStep(r))

(***************************************************************************)
(* finalize on one rank of a manager holding connections.  Every call of   *)
(* Connection.finalize is recorded with the connection it was made on and  *)
(* with is_file_open as it was at the time of the call.                    *)
(***************************************************************************)
is_file_open(w) == w.m.synapse_reader # 0

\* (variant: the reader is kept)
release_reader_never(w) == w

\* `self._synapse_reader = None`
release_reader(w) == [w EXCEPT !.m.synapse_reader = 0]

\* `reversed(conns)`
reversed(s) == [i \in 1..Len(s) |-> s[Len(s) + 1 - i]]

\* SynapseRuleManager._finalize_conns for the list of one target: the calls
\* it makes, each counted as an instantiated connection
_finalize_conns(w, tgid, conns) ==
    LET order == reversed(conns)
    IN  [i \in 1..Len(order) |-> [conn |-> order[i], is_file_open |-> is_file_open(w)]]

\* `for tgid, conns in pop.items()`
RECURSIVE finalize_items(_, _)
finalize_items(w, items) ==
    IF items = <<>> THEN <<>>
    ELSE _finalize_conns(w, items[1].tgid, items[1].conns) \o finalize_items(w, Tail(items))

\* `for popid, pop in self._populations.items()`
RECURSIVE finalize_pops(_, _)
finalize_pops(w, pops) ==
    IF pops = <<>> THEN <<>>
    ELSE finalize_items(w, pops[1].cmap) \o finalize_pops(w, Tail(pops))

\* finalize where this rank is the only one: ret is the calls made and the
\* total MPI.allreduce returns
finalize(w) ==
    LET w1 == release_reader(w)
        calls == finalize_pops(w1, w1.pops)
    IN  MRes(w1, [calls |-> calls, all_ranks_total |-> Len(calls)], "")

\* the step is finalize with result r
FinalizeStep(r) ==
    /\ heap' = Collect(r.w.h, MgrRefs(r.w))
    /\ populations' = r.w.pops
    /\ mgr' = r.w.m
    /\ last' = [op |-> "finalize", err |-> r.err, dcount |-> 0, changed |-> {},
                calls |-> r.ret.calls, all_ranks_total |-> r.ret.all_ranks_total,
                was_open |-> is_file_open(TheWorld)]
    /\ UNCHANGED <<scan, ranks, env>>

Finalize == FinalizeStep(finalize(Fresh(TheWorld)))

NextInstantiate == OpenSynapseFile \/ ConnectGroup \/ Finalize

SpecInstantiate == InitLoad /\ [][NextInstantiate]_vars

(***************************************************************************)
(* Specification of a manager opening edge populations: the constructor    *)
(* may initialise base connectivity, then projections are opened           *)
(***************************************************************************)
MaxOpens == 4           \* edge populations registered by source node name

\* nrnPath populations of the base connectivity
BasePopulations == {<<>>, BaseEdges}

\* edge populations of the synapse sources: none, two or three groups, one group
EdgeNames ==
    {<<>>, BaseEdges, ProjEdges, <<"NodeB", "NodeB", "chemical">>, <<"NodeB">>,
     <<"Proj", "NodeB">>}

\* ConnectionManagerBase.__init__: no reader, the default population only
InitPopulations ==
    /\ heap = <<>>
    /\ populations = <<ConnectionSetInit(0, 0)>>
    /\ mgr = ManagerInit
    /\ last = NoOp
    /\ scan = NoScan
    /\ ranks = <<>>
    /\ env = NoEnv

\* entries of _populations_by_src_nodes
Registered(m) ==
    LET names == <<NoneName, "NodeA", "NodeB", "Proj">>
    IN  SumSeq([i \in 1..Len(names) |-> Len(m.by_src_nodes[names[i]])])

PopulationsApply(name, r) ==
    /\ Registered(r.w.m) <= MaxOpens
    /\ MgrStep(name, r)

\* the rest of SynapseRuleManager.__init__ when nrnPath is set
InitSynapseLocation ==
    /\ last.op = "init"
    /\ \E pop \in BasePopulations :
           PopulationsApply("init_synapse_location",
                            init_synapse_location(Fresh(TheWorld), 1, pop))

OpenProjection ==
    \E ds \in {1, 2}, edge_pop_name \in EdgeNames :
        PopulationsApply("open_synapse_file",
                         MRes(open_synapse_file(Fresh(TheWorld), ds, edge_pop_name, NoneId),
                              NoConn, ""))

NextPopulations == InitSynapseLocation \/ OpenProjection

SpecPopulations == InitPopulations /\ [][NextPopulations]_vars

(***************************************************************************)
(* Specification of a manager that loads several populations: the synapse  *)
(* file is opened on the base connectivity or on the projection, and the   *)
(* selected population is loaded by connect_all or connect_group           *)
(***************************************************************************)
SelectSources == {1, 2} \X {<<>>, ProjEdges}

SelectApply(name, r) ==
    /\ Registered(r.w.m) <= MaxOpens
    /\ MgrApply(name, r)

SelectOpen ==
    \E src \in SelectSources :
        SelectApply("open_synapse_file",
                    MRes(open_synapse_file(Fresh(TheWorld), src[1], src[2], NoneId),
                         NoConn, ""))

SelectConnectAll ==
    \E only_gids \in {SelNone, SelList(<<1>>)} :
        MgrApply("connect_all", connect_all(Fresh(TheWorld), 1, only_gids, FALSE))

SelectConnectGroup ==
    \E src \in PathwaySources, dst \in PathwayDestinations :
        MgrApply("connect_group", connect_group(Fresh(TheWorld), src, dst, 0))

NextSelect == SelectOpen \/ SelectConnectAll \/ SelectConnectGroup

SpecSelect == InitLoad /\ [][NextSelect]_vars

(***************************************************************************)
(* Specification of the plugin manager ACellSynapseManager, whose          *)
(* connection factory ACellConnection aggregates all sources of a target   *)
(* cell: its default population is filled by get_or_create_connection and  *)
(* by connect_all over the ACellSynReader                                  *)
(***************************************************************************)
MaxACellSources == 4    \* source cells appended to the connections of the manager

ACellSources == {2, 3, 4}

WeightFactors == {1, 2}

InitACell ==
    /\ heap = <<>>
    /\ populations = <<ACellConnectionSet(0, 0)>>
    /\ mgr = ManagerInit
    /\ last = NoOp
    /\ scan = NoScan
    /\ ranks = <<>>
    /\ env = NoEnv

\* ACellSynapseManager.open_synapse_file: only the reader is set
ACellSynapseManager_open_synapse_file(w) ==
    MRes([w EXCEPT !.m.synapse_reader = ACellSynReader], NoConn, "")

ACellOpen ==
    MgrStep("open_synapse_file", ACellSynapseManager_open_synapse_file(Fresh(TheWorld)))

ACellGetOrCreate ==
    \E s \in ACellSources, t \in Targets, weight_factor \in WeightFactors :
        SetStep("get_or_create_connection",
                get_or_create_connection(heap, TheSet, s, t, weight_factor))

ACellConnectAll ==
    \E weight_factor \in WeightFactors, only_gids \in {SelNone, SelList(<<2>>)} :
        LET r == connect_all(Fresh(TheWorld), weight_factor, only_gids, FALSE)
        IN  /\ SynapseCount(r.w.h) <= MaxACellSources
            /\ MgrStep("connect_all", r)

NextACell == ACellOpen \/ ACellGetOrCreate \/ ACellConnectAll

SpecACell == InitACell /\ [][NextACell]_vars

(***************************************************************************)
(* Specification of file discovery: a directory holds some of the known    *)
(* circuit files, and the manager classes look for theirs in it            *)
(***************************************************************************)
\* a manager class of a plugin, reading the synapse formats by itself
PluginManager == ManagerClass(<<"edges.h5", "nrn.h5">>, TRUE)

ManagerClasses == {SynapseRuleManager, GapJunctionManager, PluginManager}

CircuitFiles ==
    Range(SynapseRuleManager_CIRCUIT_FILENAMES) \cup Range(GapJunctionManager_CIRCUIT_FILENAMES)

Location == <<"circuit">>

InitFiles ==
    /\ heap = <<>>
    /\ populations = <<>>
    /\ mgr = ManagerInit
    /\ last = NoOp
    /\ scan = NoScan
    /\ ranks = <<>>
    /\ env \in [files : SUBSET CircuitFiles, syntool : BOOLEAN, t : {0}, gjinfo : {<<>>}]

FindCircuitFile ==
    \E cls \in ManagerClasses :
        LET r == _find_circuit_file(cls, Location, env.files, env.syntool)
        IN  /\ last' = [op |-> "_find_circuit_file", ret |-> r.ret, err |-> r.err,
                        dcount |-> 0, cls |-> cls, log |-> r.log]
            /\ UNCHANGED <<heap, populations, mgr, scan, ranks, env>>

NextFiles == FindCircuitFile

SpecFiles == InitFiles /\ [][NextFiles]_vars

(***************************************************************************)
(* The GapJunctionManager.  gj_conf is the configuration block: its Path   *)
(* is a directory, a file in it, or missing.  The lines of gjinfo.txt are  *)
(* pairs (gid, junction count).  _gj_offsets is None or a vector.          *)
(***************************************************************************)
NoPath == <<>>

GjDir == <<"gj">>

isdir(path) == path = GjDir

isfile(path, files) == Len(path) = 2 /\ SubSeq(path, 1, 1) = GjDir /\ path[2] \in files

OffsetsNone == [k |-> "none", v |-> <<>>]

OffsetsOf(v) == [k |-> "vector", v |-> v]

\* the manager before any of its constructors ran
Unconstructed == World(<<>>, <<>>, ManagerInit)

\* (variant: the arguments are not looked at)
gj_preconditions_none(gj_conf, circuit_target) == ""

\* the two checks GapJunctionManager.__init__ starts with
gj_preconditions(gj_conf, circuit_target) ==
    IF circuit_target = NoneName THEN "ConfigurationError"
    ELSE IF gj_conf.Path = NoPath THEN "ConfigurationError"
    ELSE ""

\* `if ospath.isdir(nrn_path): nrn_path = self._find_circuit_file(nrn_path)`
resolve_path(cls, nrn_path, e) ==
    IF isdir(nrn_path) THEN _find_circuit_file(cls, nrn_path, e.files, e.syntool)
    ELSE FRes(nrn_path, "", {})

\* init_synapse_location once the path is resolved; the reader of every
\* gap-junction file is the one of dataset 1
init_synapse_location_found(w, found, e) ==
    IF found.err # "" THEN MRes(w, <<>>, found.err)
    ELSE IF ~isfile(found.ret, e.files) THEN MRes(w, <<>>, "AssertionError")
    ELSE [init_synapse_location([w EXCEPT !.m.log = @ \cup found.log], 1, <<>>)
             EXCEPT !.ret = found.ret]

\* init_synapse_location for a path that is a directory or a file
init_synapse_location_path(w, cls, nrn_path, e) ==
    init_synapse_location_found(w, resolve_path(cls, nrn_path, e), e)

\* (variant: a line's count is added before its entry is appended)
RECURSIVE gj_offsets_inclusive(_, _)
gj_offsets_inclusive(lines, gj_sum) ==
    IF lines = <<>> THEN <<>>
    ELSE <<gj_sum + 2 * lines[1][2]>>
         \o gj_offsets_inclusive(Tail(lines), gj_sum + 2 * lines[1][2])

\* `for line in open(gjfname)`: the entry of a line is the sum before it
RECURSIVE gj_offsets(_, _)
gj_offsets(lines, gj_sum) ==
    IF lines = <<>> THEN <<>>
    ELSE <<gj_sum>> \o gj_offsets(Tail(lines), gj_sum + 2 * lines[1][2])

\* gjinfo.txt is looked for under gj_conf["Path"]
_compute_gj_offsets(gj_conf, e) ==
    IF ~isdir(gj_conf.Path) THEN FRes(OffsetsNone, "NotADirectoryError", {})
    ELSE IF "gjinfo.txt" \notin e.files THEN FRes(OffsetsNone, "FileNotFoundError", {})
    ELSE FRes(OffsetsOf(gj_offsets(e.gjinfo, 0)), "", {})

\* the fields of a GapJunctionManager: those of the base class and
\* _gj_offsets, None until the offsets are computed
GapJunctionManagerInit ==
    [f \in DOMAIN ManagerInit \cup {"gj_offsets"} |->
        IF f = "gj_offsets" THEN OffsetsNone ELSE ManagerInit[f]]

\* GapJunctionManager.__init__ after init_synapse_location returned r: the
\* circuit target and the offsets off of a nrn_gj.h5 file
gj_init_offsets(r, off, circuit_target) ==
    IF r.err # "" THEN MRes(r.w, NoConn, r.err)
    ELSE IF circuit_target = NoneName THEN MRes(r.w, NoConn, "raised")
    ELSE IF r.ret[Len(r.ret)] # "nrn_gj.h5"
    THEN MRes([r.w EXCEPT !.m.circuit_target = getTarget(circuit_target)], NoConn, "")
    ELSE IF off.err # ""
    THEN MRes([r.w EXCEPT !.m.circuit_target = getTarget(circuit_target)], NoConn, off.err)
    ELSE MRes([r.w EXCEPT !.m.circuit_target = getTarget(circuit_target),
                          !.m.gj_offsets = off.ret], NoConn, "")

\* GapJunctionManager.__init__ after its checks gave pre
gj_init(pre, gj_conf, circuit_target, e) ==
    IF pre # "" THEN MRes(Unconstructed, NoConn, pre)
    ELSE IF gj_conf.Path = NoPath
    THEN MRes(World(<<>>, <<ConnectionSetInit(0, 0)>>, GapJunctionManagerInit), NoConn, "KeyError")
    ELSE gj_init_offsets(
             init_synapse_location_path(
                 World(<<>>, <<ConnectionSetInit(0, 0)>>, GapJunctionManagerInit),
                 GapJunctionManager, gj_conf.Path, e),
             _compute_gj_offsets(gj_conf, e), circuit_target)

\* GapJunctionManager.__init__: w is what has been built when it returns
\* or raises
GapJunctionManager___init__(gj_conf, circuit_target, e) ==
    gj_init(gj_preconditions(gj_conf, circuit_target), gj_conf, circuit_target, e)

\* GapJunctionManager._finalize_conns: the calls of finalize_gap_junctions
\* made for the list of one target, up to an index outside the vector
RECURSIVE gj_finalize_loop(_, _, _, _)
gj_finalize_loop(w, order, t_gj_offset, calls) ==
    IF order = <<>> THEN FRes(calls, "", {})
    ELSE LET sgid == w.h[order[1]].sgid
             v == w.m.gj_offsets.v
         IN  IF sgid - 1 \notin 0..(Len(v) - 1) THEN FRes(calls, "IndexError", {})
             ELSE gj_finalize_loop(w, Tail(order), t_gj_offset,
                                   Append(calls, [conn |-> order[1], t_gj_offset |-> t_gj_offset,
                                                  s_gj_offset |-> v[sgid]]))

GapJunctionManager__finalize_conns(w, tgid, conns) ==
    IF w.m.gj_offsets.k = "none"
    THEN FRes([i \in 1..Len(conns) |->
                  [conn |-> reversed(conns)[i], t_gj_offset |-> 0, s_gj_offset |-> 0]], "", {})
    ELSE IF tgid - 1 \notin 0..(Len(w.m.gj_offsets.v) - 1) THEN FRes(<<>>, "IndexError", {})
    ELSE gj_finalize_loop(w, reversed(conns), w.m.gj_offsets.v[tgid], <<>>)

\* the loops of finalize over the lists of all populations, in order
RECURSIVE gj_finalize_items(_, _, _)
gj_finalize_items(w, items, calls) ==
    IF items = <<>> THEN FRes(calls, "", {})
    ELSE LET r == GapJunctionManager__finalize_conns(w, items[1].tgid, items[1].conns)
         IN  IF r.err # "" THEN FRes(calls \o r.ret, r.err, {})
             ELSE gj_finalize_items(w, Tail(items), calls \o r.ret)

RECURSIVE AllItems(_)
AllItems(pops) ==
    IF pops = <<>> THEN <<>> ELSE pops[1].cmap \o AllItems(Tail(pops))

\* GapJunctionManager.finalize on the only rank
GapJunctionManager_finalize(w) ==
    LET w1 == release_reader(w)
        r == gj_finalize_items(w1, AllItems(w1.pops), <<>>)
    IN  MRes(w1, [calls |-> r.ret, all_ranks_total |-> IF r.err = "" THEN Len(r.ret) ELSE NoneId],
             r.err)

(***************************************************************************)
(* Specification of a GapJunctionManager: it is constructed over a         *)
(* directory, loads the junctions and instantiates them                    *)
(***************************************************************************)
GjConfs == {[Path |-> NoPath], [Path |-> GjDir], [Path |-> <<"gj", "nrn_gj.h5">>]}

CircuitTargets == {NoneName, "Mosaic", "A"}

GjFiles == {"gj.syn2", "nrn_gj.h5", "gjinfo.txt"}

\* gjinfo.txt with a line for each of the cells 1..5, and one that stops early
GjInfos ==
    {<< <<1, 2>>, <<2, 0>>, <<3, 1>>, <<4, 0>>, <<5, 3>> >>, << <<1, 1>>, <<2, 4>> >>}

InitGapJunctions ==
    /\ heap = <<>>
    /\ populations = <<>>
    /\ mgr = ManagerInit
    /\ last = NoOp
    /\ scan = NoScan
    /\ ranks = <<>>
    /\ env \in [files : SUBSET GjFiles, syntool : {TRUE}, t : {0}, gjinfo : GjInfos]

Constructed == last.op # "init" /\ ~(last.op = "__init__" /\ last.err # "")

Construct ==
    /\ last.op = "init"
    /\ \E gj_conf \in GjConfs, circuit_target \in CircuitTargets :
           LET r == GapJunctionManager___init__(gj_conf, circuit_target, env)
           IN  /\ heap' = r.w.h
               /\ populations' = r.w.pops
               /\ mgr' = r.w.m
               /\ last' = [op |-> "__init__", ret |-> NoConn, err |-> r.err, dcount |-> 0,
                           gj_conf |-> gj_conf, circuit_target |-> circuit_target]
               /\ UNCHANGED <<scan, ranks, env>>

GjConnectAll ==
    /\ Constructed
    /\ \E only_gids \in {SelNone, SelList(<<2>>)}, only_sgid_in_target \in BOOLEAN :
           MgrApply("connect_all",
                    connect_all(Fresh(TheWorld), 1, only_gids, only_sgid_in_target))

GjFinalize ==
    /\ Constructed
    /\ FinalizeStep(GapJunctionManager_finalize(Fresh(TheWorld)))

NextGapJunctions == Construct \/ GjConnectAll \/ GjFinalize

SpecGapJunctions == InitGapJunctions /\ [][NextGapJunctions]_vars

(***************************************************************************)
(* The legacy GapJunctionManager of gapjunctions.py.  Its _connections, a  *)
(* defaultdict(list) by target gid, is kept as the connection map of the   *)
(* one ConnectionSet record of the model, and its circuit target in the    *)
(* manager record.  The rows loadSynapseParameters returns for a cell are  *)
(* those of nrn_gj.h5, sorted by source gid.                               *)
(***************************************************************************)
nrn_gj ==
    [t \in Targets |-> IF t = 1 THEN <<Row(1, 1), Row(5, 1), Row(5, 2)>> ELSE <<Row(3, 1)>>]

loadSynapseParameters(gid) == nrn_gj[gid]

\* GapJunctionManager._find_connection of gapjunctions.py: a position, or
\* -1 (None) also for an inexact search that ends past the list
legacy_find_connection(h, cell_conns, sgid, exact) ==
    IF cell_conns = <<>> THEN -1
    ELSE LET pos == bin_search(SgidsOf(h, cell_conns), sgid)
         IN  IF pos = Len(cell_conns) THEN -1
             ELSE IF exact /\ h[cell_conns[pos + 1]].sgid # sgid THEN -1
             ELSE pos

findConnection(w, sgid, tgid) ==
    LET conn_lst == MapGet(w.pops[1].cmap, tgid)
        idx == legacy_find_connection(w.h, conn_lst, sgid, TRUE)
    IN  IF idx = -1 THEN NoConn ELSE conn_lst[idx + 1]

\* storeConnection(conn) of an object not yet known to the manager: its
\* handle when it was stored, NoConn when the pair was there already
storeConnection(w, conn) ==
    LET cell_conns == MapGet(w.pops[1].cmap, conn.tgid)
        pos == legacy_find_connection(w.h, cell_conns, conn.sgid, FALSE)
        c == Alloc(w.h, conn)
        Stored(l) == MRes([w EXCEPT !.h = Put(w.h, c, conn),
                                    !.pops[1].cmap = MapSet(@, conn.tgid, l)], c, "")
    IN  IF pos # -1
        THEN IF w.h[cell_conns[pos + 1]].sgid = conn.sgid
             THEN MRes([Log(w, "warning: store a connection twice")
                           EXCEPT !.pops[1].cmap = MapTouch(@, conn.tgid)], NoConn, "")
             ELSE Stored(InsertAt(cell_conns, pos, c))
        ELSE Stored(Append(cell_conns, c))

\* cur_conn.append(point, syn_params, i)
Connection_append(conn, reader, syn_params, i) ==
    [conn EXCEPT !.synapses = Append(@, Synapse(reader, syn_params, i))]

\* connectAll's `if self._circuit_target and not
\* self._circuit_target.completeContains(sgid): continue`
connectAll_skips(w, sgid) ==
    w.m.circuit_target.k # "none" /\ ~completeContains(w.m.circuit_target, sgid)

\* the inner loop of connectAll from row i (0-based) on.  cur_sgid is the
\* sgid of cur_conn (NoneId while cur_conn is None) and cur_conn its handle,
\* NoConn when storeConnection did not keep the object
RECURSIVE connectAll_rows(_, _, _, _, _, _, _)
connectAll_rows(w, tgid, rows, i, cur_sgid, cur_conn, weight) ==
    IF i >= Len(rows) THEN w
    ELSE LET syn_params == rows[i + 1]
             sgid == syn_params.sgid
             s == storeConnection(w, NewConnection(sgid, tgid, 0, 0, weight))
             conn == IF cur_sgid # sgid THEN s.ret ELSE cur_conn
             w1 == IF cur_sgid # sgid THEN s.w ELSE w
             w2 == IF conn = NoConn THEN w1
                   ELSE [w1 EXCEPT !.h[conn] = Connection_append(@, w.m.synapse_reader,
                                                                 syn_params, i)]
         IN  IF connectAll_skips(w, sgid)
             THEN connectAll_rows(w, tgid, rows, i + 1, cur_sgid, cur_conn, weight)
             ELSE connectAll_rows(w2, tgid, rows, i + 1, sgid, conn, weight)

RECURSIVE connectAll_gids(_, _, _)
connectAll_gids(w, gidvec, weight) ==
    IF gidvec = <<>> THEN w
    ELSE connectAll_gids(connectAll_rows(w, gidvec[1], loadSynapseParameters(gidvec[1]), 0,
                                         NoneId, NoConn, weight),
                         Tail(gidvec), weight)

connectAll(w, gidvec, weight) == MRes(connectAll_gids(w, gidvec, weight), NoConn, "")

\* groupConnect's `if self._circuit_target is not None and
\* self._circuit_target.completeContains(sgid): continue`
groupConnect_skips(w, sgid) ==
    w.m.circuit_target.k # "none" /\ completeContains(w.m.circuit_target, sgid)

\* storeConnection(pend_conn) when a connection is pending; pend_conn is
\* <<>> for None and otherwise holds the object
store_pending(w, pend_conn) ==
    IF pend_conn = <<>> THEN w ELSE storeConnection(w, pend_conn[1]).w

\* the body `if sgid != old_sgid:` of groupConnect: the manager and the
\* pending connection after it
new_sgid(w, pend_conn, sgid, tgid, weight, configuration) ==
    LET w1 == store_pending(w, pend_conn)
        existing_conn == findConnection(w1, sgid, tgid)
        created == [NewConnection(sgid, tgid, 0, 0, 1) EXCEPT
                       !.synapse_configurations =
                           IF configuration = "" THEN <<>> ELSE <<configuration>>]
    IN  IF existing_conn # NoConn
        THEN <<IF weight # NoneWeight
               THEN [w1 EXCEPT !.h[existing_conn].weight_factor = weight,
                               !.h[existing_conn].synapse_configurations =
                                   Append(@, configuration)]
               ELSE w1,
               <<>>>>
        ELSE <<IF weight = NoneWeight THEN Log(w1, "warning: invalid weight value") ELSE w1,
               <<created>>>>

\* the inner loop of groupConnect from row i (0-based) on, with the store
\* that follows it
RECURSIVE groupConnect_rows(_, _, _, _, _, _, _, _, _)
groupConnect_rows(w, tgid, rows, i, old_sgid, pend_conn, src_target, weight, configuration) ==
    IF i >= Len(rows) THEN store_pending(w, pend_conn)
    ELSE LET syn_params == rows[i + 1]
             sgid == syn_params.sgid
             n == IF sgid # old_sgid
                  THEN new_sgid(w, pend_conn, sgid, tgid, weight, configuration)
                  ELSE <<w, pend_conn>>
             pend == IF n[2] = <<>> THEN <<>>
                     ELSE <<Connection_append(n[2][1], w.m.synapse_reader, syn_params, i)>>
         IN  IF ~completeContains(src_target, sgid) \/ groupConnect_skips(w, sgid)
             THEN groupConnect_rows(w, tgid, rows, i + 1, old_sgid, pend_conn, src_target,
                                    weight, configuration)
             ELSE groupConnect_rows(n[1], tgid, rows, i + 1, sgid, pend, src_target,
                                    weight, configuration)

RECURSIVE groupConnect_gids(_, _, _, _, _, _)
groupConnect_gids(w, src_target, dst_target, gidvec, weight, configuration) ==
    IF gidvec = <<>> THEN w
    ELSE groupConnect_gids(
             IF ~completeContains(dst_target, gidvec[1]) THEN w
             ELSE groupConnect_rows(w, gidvec[1], loadSynapseParameters(gidvec[1]), 0,
                                    NoneId, <<>>, src_target, weight, configuration),
             src_target, dst_target, Tail(gidvec), weight, configuration)

groupConnect(w, src_target, dst_target, gidvec, weight, configuration) ==
    MRes(groupConnect_gids(w, getTarget(src_target), getTarget(dst_target), gidvec, weight,
                           configuration),
         NoConn, "")

(***************************************************************************)
(* Specification of the legacy GapJunctionManager, constructed with or     *)
(* without a circuit target and filled by connectAll and groupConnect      *)
(***************************************************************************)
LegacyCircuitTargets == {TargetNone, getTarget("A"), getTarget("Mosaic")}

LegacyGidVecs == {<<1, 2>>, <<1>>}

InitLegacy ==
    \E circuit_target \in LegacyCircuitTargets :
        /\ heap = <<>>
        /\ populations = <<ConnectionSetInit(0, 0)>>
        /\ mgr = [ManagerInit EXCEPT !.circuit_target = circuit_target,
                                     !.synapse_reader = 1]
        /\ last = NoOp
        /\ scan = NoScan
        /\ ranks = <<>>
        /\ env = NoEnv

LegacyConnectAll ==
    \E gidvec \in LegacyGidVecs, weight \in WeightFactors :
        MgrStep("connectAll", connectAll(Fresh(TheWorld), gidvec, weight))

LegacyGroupConnect ==
    \E src_target \in {"A", "Mosaic"}, dst_target \in {"B", "Mosaic"},
       gidvec \in LegacyGidVecs, weight \in {NoneWeight, 2}, configuration \in {"", "cfg"} :
        ConfigureApply("groupConnect",
                       groupConnect(Fresh(TheWorld), src_target, dst_target, gidvec, weight,
                                    configuration))

NextLegacy == LegacyConnectAll \/ LegacyGroupConnect

SpecLegacy == InitLegacy /\ [][NextLegacy]_vars

(***************************************************************************)
(* Properties of the ConnectionSet                                         *)
(***************************************************************************)
\* the source ids stored for target t, in list order
StoredSgids(h, cs, t) == SgidsOf(h, MapGet(cs.cmap, t))

IsStored(h, cs, s, t) == \E c \in Range(MapGet(cs.cmap, t)) : h[c].sgid = s

StrictlyAscending(ks) == \A a, b \in 1..Len(ks) : a < b => ks[a] < ks[b]

Ascending(ks) == \A a, b \in 1..Len(ks) : a < b => ks[a] <= ks[b]

\* C1: after any sequence of get_or_create_connection, store_connection,
\* delete and delete_group calls, the connection list of every target is
\* strictly ascending by source id, so no source id occurs twice in it.
C1_SortedNoDuplicates ==
    \A t \in Targets : StrictlyAscending(StoredSgids(heap, TheSet, t))

\* a connection was just created between two connections created earlier
C1_Witness ==
    /\ last.op = "get_or_create_connection"
    /\ \E t \in Targets :
          LET conns == MapGet(TheSet.cmap, t)
          IN  Len(conns) = 3 /\ conns[2] = last.ret /\ last.dcount = 1

\* does selector sel (None, int or list) select gid g
Selects(sel, g) == sel.k = "none" \/ g \in Range(sel.v)

\* the list of target t once the connections selected by pre_gids are gone
Without(h, conns, pre_gids) == SelectSeq(conns, LAMBDA c : ~Selects(pre_gids, h[c].sgid))

\* C2: delete_group(post_gids, pre_gids) removes exactly the connections
\* whose target is selected by post_gids and whose source id is selected by
\* pre_gids, keeps the others in their order and lowers count() by the
\* number of connections removed.
C2_DeleteGroupExact ==
    [][\A post \in PostSelectors, pre \in PreSelectors :
         (last'.op = "delete_group"
          /\ SetStep("delete_group", cs_delete_group(heap, TheSet, post, pre)))
         => /\ \A t \in Targets :
                 MapGet(TheSet'.cmap, t) =
                     IF Selects(post, t) THEN Without(heap, MapGet(TheSet.cmap, t), pre)
                     ELSE MapGet(TheSet.cmap, t)
            /\ count(TheSet') = count(TheSet)
                   - (Cardinality(AllConns(TheSet)) - Cardinality(AllConns(TheSet')))
      ]_vars

\* C4: _find_connection(s, t, exact=True) returns a position iff (s, t) is
\* stored, and that position holds the connection with source s; with
\* exact=False it returns a position in 0..len at which inserting s keeps
\* the list sorted.
C4_FindExact ==
    \A s \in Sources, t \in Targets :
        LET conns == MapGet(TheSet.cmap, t)
            p == find_connection_pos(heap, TheSet, s, t, TRUE)
            q == find_connection_pos(heap, TheSet, s, t, FALSE)
        IN  /\ (p # -1) <=> IsStored(heap, TheSet, s, t)
            /\ p # -1 => (p \in 0..(Len(conns) - 1) /\ heap[conns[p + 1]].sgid = s)
            /\ q \in 0..Len(conns)
            /\ Ascending(InsertAt(SgidsOf(heap, conns), q, s))

\* a lookup has just been made in a set where an exact lookup finds a pair
\* behind other stored connections and does not find another pair
C4_Witness ==
    /\ last.op = "_find_connection"
    /\ \E s \in Sources, t \in Targets : find_connection_pos(heap, TheSet, s, t, TRUE) >= 1
    /\ \E s \in Sources, t \in Targets :
          /\ find_connection_pos(heap, TheSet, s, t, TRUE) = -1
          /\ find_connection_pos(heap, TheSet, s, t, FALSE) = 1

\* C5: get_or_create_connection of a stored pair returns the stored
\* connection and leaves every list and count() as they were, and no
\* get_or_create_connection call removes or replaces a stored connection;
\* store_connection of a stored pair logs an error, does not raise and
\* leaves every list and count() as they were.
C5_Idempotent ==
    [][\A s \in Sources, t \in Targets :
         /\ (last'.op = "get_or_create_connection"
             /\ SetStep("get_or_create_connection",
                        get_or_create_connection(heap, TheSet, s, t, 1)))
            => /\ last'.ret \in Range(MapGet(TheSet'.cmap, t))
               /\ heap'[last'.ret].sgid = s
               /\ \A c \in AllConns(TheSet) : c \in AllConns(TheSet') /\ heap'[c] = heap[c]
               /\ IsStored(heap, TheSet, s, t)
                     => /\ last'.ret \in Range(MapGet(TheSet.cmap, t))
                        /\ count(TheSet') = count(TheSet)
                        /\ \A u \in Targets : MapGet(TheSet'.cmap, u) = MapGet(TheSet.cmap, u)
         /\ (last'.op = "store_connection"
             /\ IsStored(heap, TheSet, s, t)
             /\ SetStep("store_connection",
                        store_connection(heap, TheSet, NewConnection(s, t, 0, 0, 1))))
            => /\ last'.err = "logged"
               /\ count(TheSet') = count(TheSet)
               /\ \A u \in Targets : MapGet(TheSet'.cmap, u) = MapGet(TheSet.cmap, u)
      ]_vars

\* a stored pair, not the last of its list, was asked for again
C5_Witness ==
    /\ last.op = "get_or_create_connection"
    /\ \E t \in Targets :
          LET conns == MapGet(TheSet.cmap, t)
          IN  Len(conns) >= 2 /\ conns[1] = last.ret /\ last.dcount = 0

\* C13: delete(s, t) of a stored pair logs nothing, takes exactly the
\* connection with source s out of the list of t, leaves the lists of all
\* other targets as they were and lowers count() by one; delete(s, t) of a
\* pair that is not stored logs an error, does not raise, and leaves the list
\* of every target and count() as they were.
C13_DeleteExact ==
    \A s \in Sources, t \in Targets :
        LET r == cs_delete(heap, TheSet, s, t)
            conns == MapGet(TheSet.cmap, t)
            NotS(c) == heap[c].sgid # s
        IN  /\ r.err \in {"", "logged"}
            /\ \A u \in Targets \ {t} : MapGet(r.cs.cmap, u) = MapGet(TheSet.cmap, u)
            /\ IsStored(heap, TheSet, s, t) =>
                   /\ r.err = ""
                   /\ MapGet(r.cs.cmap, t) = SelectSeq(conns, NotS)
                   /\ Len(MapGet(r.cs.cmap, t)) = Len(conns) - 1
                   /\ count(r.cs) = count(TheSet) - 1
            /\ ~IsStored(heap, TheSet, s, t) =>
                   /\ r.err = "logged"
                   /\ MapGet(r.cs.cmap, t) = conns
                   /\ count(r.cs) = count(TheSet)

\* a delete has failed on a pair that is not stored, in a set that stores
\* other connections for the same target, above and below the missing source
C13_Witness ==
    /\ last.op = "delete"
    /\ last.err = "logged"
    /\ last.dcount = 0
    /\ \E t \in Targets :
           /\ Len(MapGet(TheSet.cmap, t)) = 2
           /\ \E s \in Sources :
                  /\ ~IsStored(heap, TheSet, s, t)
                  /\ find_connection_pos(heap, TheSet, s, t, FALSE) = 1

\* C17 as stated: get_connections leaves the ConnectionSet as it was, its
\* target ids included, whatever the shape of its arguments.
C17_GetConnectionsReadOnly ==
    \A post_gids \in QueryPostGids, pre_gids \in PreSelectors :
        LET r == get_connections(heap, TheSet, post_gids, pre_gids)
        IN  /\ MapKeys(r.cs.cmap) = MapKeys(TheSet.cmap)
            /\ \A t \in Targets : MapHas(r.cs.cmap, t) <=> MapHas(TheSet.cmap, t)
            /\ \A t \in Targets : MapGet(r.cs.cmap, t) = MapGet(TheSet.cmap, t)
            /\ count(r.cs) = count(TheSet)

\* the stored connections of the targets tl, in that order, that pass pre_gids
RECURSIVE SelectedConns(_, _)
SelectedConns(tl, pre_gids) ==
    IF tl = <<>> THEN <<>>
    ELSE LET Passes(c) == pre_gids.k = "none" \/ heap[c].sgid \in Range(pre_gids.v)
         IN  SelectSeq(MapGet(TheSet.cmap, tl[1]), Passes) \o SelectedConns(Tail(tl), pre_gids)

RunStarts(sgids) == {i \in 0..(Len(sgids) - 1) : i = 0 \/ sgids[i] # sgids[i + 1]}

\* the row after the run that starts at row i
RunEnd(sgids, i) ==
    IF \E j \in RunStarts(sgids) : j > i
    THEN CHOOSE j \in RunStarts(sgids) : j > i /\ \A k \in RunStarts(sgids) : k > i => j <= k
    ELSE Len(sgids)

\* the runs that start before row n and pass the filter, in table order
RECURSIVE RunsBefore(_, _, _)
RunsBefore(sgids, src_target, n) ==
    IF n = 0 THEN <<>>
    ELSE LET i == n - 1
             rest == RunsBefore(sgids, src_target, i)
         IN  IF i \in RunStarts(sgids)
                /\ (src_target.k = "none" \/ sgids[i + 1] \in src_target.gids)
             THEN Append(rest, <<sgids[i + 1], i, RunEnd(sgids, i)>>)
             ELSE rest

\* C3: for the sorted table of one target cell, _iterate_conn_params yields,
\* in table order, exactly one tuple per maximal run of equal source ids
\* that passes the source filter; each slice is the whole run and its
\* offset is the run's first row, runs of length 1 and the run that ends
\* the table included.
C3_GroupsAreRuns ==
    /\ scan.cur_i \in RunStarts(scan.sgids) \cup {Len(scan.sgids)}
    /\ scan.out = RunsBefore(scan.sgids, scan.src_target, scan.cur_i)

\* the table [3,3,3,5,5,7] was grouped into sizes 3, 2, 1 at offsets 0, 3, 5
C3_Witness ==
    /\ scan.sgids = <<3, 3, 3, 5, 5, 7>>
    /\ scan.cur_i = 6
    /\ scan.out = <<(<<3, 0, 3>>), (<<5, 3, 5>>), (<<7, 5, 6>>)>>

(***************************************************************************)
(* Properties of the loading manager                                       *)
(***************************************************************************)
\* the objects the current population stores
StoredInCur == AllConns(Cur(TheWorld))

\* the connection the current population of w stores for (s, t), or NoConn
CurConn(w, s, t) == get_connection(w.h, Cur(w), s, t).ret

\* C8: within one opened dataset, whatever the pathway and synapse type of a
\* connect_group call, a connection that is locked when the call starts is
\* left exactly as it was, and every connection the call creates or gives
\* synapses to is locked when the call returns; so a connection populated by
\* one connect_group call is skipped by every later one on that dataset.
C8_LockedSkipped ==
    \A src \in PathwaySources, dst \in PathwayDestinations, syn_type \in SynapseTypes :
        LET r == connect_group(Fresh(TheWorld), src, dst, syn_type)
        IN  r.err = "" =>
                \A c \in DOMAIN r.w.h :
                    /\ (c \in DOMAIN heap /\ heap[c].locked) => r.w.h[c] = heap[c]
                    /\ (c \notin DOMAIN heap \/ r.w.h[c].synapses # heap[c].synapses)
                           => r.w.h[c].locked

\* a connect_group over the whole of dataset 1 has populated (1, 1) and has
\* passed over (5, 1), which an earlier connect_group had populated and locked
C8_Witness ==
    /\ last.op = "connect_group"
    /\ mgr.synapse_reader = 1
    /\ \E c \in StoredInCur \ last.changed :
           /\ heap[c].sgid = 5 /\ heap[c].tgid = 1 /\ heap[c].locked
           /\ heap[c].synapses = <<Synapse(1, Row(5, 1), 1)>>
    /\ \E c \in StoredInCur \cap last.changed :
           /\ heap[c].sgid = 1 /\ heap[c].tgid = 1 /\ heap[c].locked
           /\ heap[c].synapses = <<Synapse(1, Row(1, 1), 0)>>

\* the synapses _add_synapses builds for the pair (sgid, tgid) from dataset ds
ExpectedSynapses(ds, sgid, tgid, syn_type) ==
    LET table == Datasets[ds][tgid]
        all == [i \in 1..Len(table) |-> Synapse(ds, table[i], i - 1)]
        Wanted(syn) == syn.params.sgid = sgid /\ (syn_type = 0 \/ syn.params.synType = syn_type)
    IN  SelectSeq(all, Wanted)

\* the pathway src -> dst yields the pair of connection conn from dataset ds
Yields(ds, src, dst, conn) ==
    /\ \E i \in 1..Len(Datasets[ds][conn.tgid]) : Datasets[ds][conn.tgid][i].sgid = conn.sgid
    /\ src.name = NoneName \/ conn.sgid \in TargetGids(src.name)
    /\ dst.name = NoneName \/ conn.tgid \in TargetGids(dst.name)

\* C9 as stated: a connection that a connect_group pass has populated and
\* locked gets no synapse from a connect_group made after a second dataset
\* has been opened.
C9_NoSynapsesFromSecondDataset ==
    \A src \in PathwaySources, dst \in PathwayDestinations, syn_type \in SynapseTypes :
      \A ds \in {1, 2} :
        \A src2 \in PathwaySources, dst2 \in PathwayDestinations, syn_type2 \in SynapseTypes :
            LET r1 == connect_group(Fresh(TheWorld), src, dst, syn_type)
                w2 == open_synapse_file(Fresh(r1.w), ds, <<>>, NoneId)
                r3 == connect_group(Fresh(w2), src2, dst2, syn_type2)
            IN  (r1.err = "" /\ r3.err = "" /\ ds # mgr.synapse_reader) =>
                    \A c \in DOMAIN r1.w.h :
                        (r1.w.h[c].locked /\ r1.w.h[c].synapses # <<>>
                         /\ (c \notin DOMAIN heap \/ r1.w.h[c].synapses # heap[c].synapses))
                            => r3.w.h[c].synapses = r1.w.h[c].synapses

\* C9, amended: the locked flag guards a connection only while the dataset
\* stays open.  open_synapse_file unlocks every stored connection, and the
\* first connect_group on the newly opened dataset whose pathway yields an
\* already populated pair of the current population appends that dataset's
\* synapses of the pair to it and locks it again.
C9_UnlockedByOpen ==
    \A ds \in {1, 2} :
        LET w2 == open_synapse_file(Fresh(TheWorld), ds, <<>>, NoneId)
        IN  /\ \A c \in Referenced(w2.pops) : ~w2.h[c].locked
            /\ \A src \in PathwaySources, dst \in PathwayDestinations, syn_type \in SynapseTypes :
                   LET r == connect_group(w2, src, dst, syn_type)
                   IN  \A c \in AllConns(Cur(w2)) :
                           Yields(ds, src, dst, heap[c]) =>
                               /\ r.w.h[c].locked
                               /\ r.w.h[c].synapses =
                                      heap[c].synapses \o
                                      ExpectedSynapses(ds, heap[c].sgid, heap[c].tgid, syn_type)

\* (5, 1), populated from dataset 1, has been given the two synapses dataset 2
\* holds for it by a connect_group
C9_Witness ==
    /\ last.op = "connect_group"
    /\ mgr.synapse_reader = 2
    /\ \E c \in StoredInCur \cap last.changed :
           /\ heap[c].locked
           /\ heap[c].synapses = <<Synapse(1, Row(5, 1), 1), Synapse(2, Row(5, 1), 0),
                                   Synapse(2, Row(5, 2), 1)>>

\* the local target cells t for which the pathway src -> dst yields the pair
\* (t, t) from dataset ds
SelfPairs(ds, src, dst) ==
    {t \in Range(local_gids) : Yields(ds, src, dst, [sgid |-> t, tgid |-> t])}

\* C19 as stated: a connect_group that meets a pair whose source is its
\* target reports a warning, does not raise, and neither creates a connection
\* for that pair nor changes the one that is stored for it.
C19_SelfConnectionNoOp ==
    \A src \in PathwaySources, dst \in PathwayDestinations, syn_type \in SynapseTypes :
        LET w == Fresh(TheWorld)
            r == connect_group(w, src, dst, syn_type)
        IN  \A t \in SelfPairs(mgr.synapse_reader, src, dst) :
                /\ r.err = ""
                /\ "warning: connection within same gid" \in r.w.m.log
                /\ CurConn(r.w, t, t) = CurConn(w, t, t)
                /\ CurConn(w, t, t) # NoConn => r.w.h[CurConn(w, t, t)] = heap[CurConn(w, t, t)]

\* C19, amended: a connect_group reports the warning exactly when its pathway
\* yields a pair whose source is its target, and it does not raise; the pair
\* is handled like any other: afterwards the current population stores a
\* locked connection for it, which is the stored one unchanged if that was
\* locked, and otherwise holds the synapses it had followed by the synapses
\* of the group that pass the synapse type.
C19_SelfConnectionMade ==
    \A src \in PathwaySources, dst \in PathwayDestinations, syn_type \in SynapseTypes :
        LET w == Fresh(TheWorld)
            ds == mgr.synapse_reader
            r == connect_group(w, src, dst, syn_type)
        IN  /\ r.err = ""
            /\ ("warning: connection within same gid" \in r.w.m.log)
                   <=> (SelfPairs(ds, src, dst) # {})
            /\ \A t \in SelfPairs(ds, src, dst) :
                   LET c0 == CurConn(w, t, t)
                       c == CurConn(r.w, t, t)
                   IN  /\ c # NoConn
                       /\ r.w.h[c].locked
                       /\ c0 # NoConn => c = c0
                       /\ (c0 # NoConn /\ heap[c0].locked) => r.w.h[c] = heap[c0]
                       /\ ~(c0 # NoConn /\ heap[c0].locked) =>
                              r.w.h[c].synapses =
                                  (IF c0 = NoConn THEN <<>> ELSE heap[c0].synapses)
                                  \o ExpectedSynapses(ds, t, t, syn_type)

\* a connect_group has reported the self-connection (1, 1), has created it
\* with its synapse and has locked it
C19_Witness ==
    /\ last.op = "connect_group" /\ last.err = ""
    /\ "warning: connection within same gid" \in mgr.log
    /\ \E c \in StoredInCur \cap last.changed :
           /\ heap[c].sgid = 1 /\ heap[c].tgid = 1 /\ heap[c].locked
           /\ heap[c].synapses = <<Synapse(1, Row(1, 1), 0)>>
    /\ last.dcount = 1

\* the blocks of a configuration whose source matches the current population
MatchingBlocks(connections) ==
    LET OfCurrent(b) == \/ b.Source.population = Cur(TheWorld).src_name
                        \/ Cur(TheWorld).src_id = 0 /\ b.Source.population = NoneName
    IN  SelectSeq(connections, OfCurrent)

\* C10: for every configuration, when exactly one block matches the current
\* population and its Weight is 0, create_connections invokes neither
\* connect_group nor connect_all and leaves the connections, the populations
\* and connection_count as they were; when two or more blocks match, every
\* matching block that has no Delay and is not NoCreate gets its
\* connect_group call, whatever its Weight.
C10_SingleZeroWeightSkips ==
    \A connections \in Configurations :
        LET r == create_connections(Fresh(TheWorld), connections, NoneName)
            matching == MatchingBlocks(connections)
            Creates(b) == ~b.Delay /\ b.CreateMode # "NoCreate"
            wanted == SelectSeq(matching, Creates)
        IN  /\ (Len(matching) = 1 /\ matching[1].Weight = 0) =>
                   /\ r.ret = <<>> /\ r.err = ""
                   /\ r.w.h = heap /\ r.w.pops = populations
                   /\ r.w.m.total_connections = mgr.total_connections
            /\ (Len(matching) >= 2 /\ r.err = "") =>
                   r.ret = [i \in 1..Len(wanted) |->
                               <<"connect_group", wanted[i].Source, wanted[i].Destination,
                                 wanted[i].SynapseID>>]

\* create_connections has skipped creation while dataset 2 is open and the
\* current population holds connections made before
C10_Witness ==
    /\ last.op = "create_connections"
    /\ last.err = "" /\ last.changed = {} /\ last.dcount = 0
    /\ "warning: skipping connection create" \in mgr.log
    /\ StoredInCur # {}

(***************************************************************************)
(* Properties of disable and reenable                                      *)
(***************************************************************************)
\* the connection population key stores for (s, t), or NoConn
StoredConn(w, key, s, t) == get_connection(w.h, w.pops[PopIdx(w.pops, key)], s, t).ret

\* C6: whenever disable(s, t, selector) succeeds, a reenable(s, t, selector)
\* right after it leaves every selected connection enabled with all its other
\* attributes as before the disable and absent from the disabled registry,
\* leaves every other stored connection, every population (its stored pairs
\* and count()) and connection_count as before the disable, and, when the
\* registry had no entry for the pair before, gives back the very manager
\* state the disable started from.
C6_DisableReenableRoundTrip ==
    \A p \in Pairs, sel \in PopSelectors :
        LET s == p[1]
            t == p[2]
            w == Fresh(TheWorld)
            d == disable(w, s, t, sel)
            e == reenable(Fresh(d.w), s, t, sel)
            keys == Range(find_populations(w, sel).ret)
            conns == {StoredConn(w, key, s, t) : key \in keys}
            listed == {i \in 1..Len(mgr.disabled_conns[t]) :
                          /\ heap[mgr.disabled_conns[t][i]].sgid = s
                          /\ heap[mgr.disabled_conns[t][i]].population_id \in keys}
        IN  d.err = "" =>
                /\ e.err = ""
                /\ \A c \in conns :
                       /\ d.w.h[c].disabled
                       /\ c \in Range(d.w.m.disabled_conns[t])
                       /\ e.w.h[c] = [heap[c] EXCEPT !.disabled = FALSE]
                       /\ c \notin Range(e.w.m.disabled_conns[t])
                /\ \A c \in Referenced(populations) \ conns : e.w.h[c] = heap[c]
                /\ e.w.pops = populations
                /\ e.w.m.total_connections = mgr.total_connections
                /\ (listed = {} /\ \A c \in conns : ~heap[c].disabled) => e.w = w

\* a reenable has just enabled connections again, and with it the manager is
\* back in the state in which base connectivity and projection were loaded
C6_Witness ==
    /\ last.op = "reenable" /\ last.err = ""
    /\ Cardinality(last.changed) = 2
    /\ \A c \in last.changed : c \in Referenced(populations) /\ ~heap[c].disabled
    /\ TheWorld = LoadedProjection

\* the populations selector sel matches: None matches all, an int matches on
\* the source id, a tuple matches on the parts it gives
SelectedKeys(sel) ==
    {PopKey(populations[i]) : i \in {j \in 1..Len(populations) :
        /\ sel.src = NoneId \/ sel.src = populations[j].src_id
        /\ sel.dst = NoneId \/ sel.dst = populations[j].dst_id}}

\* manager r.w comes from the current one by enabling, and taking out of the
\* registries of the targets tgids, exactly the registered connections with a
\* source in sgids and a population in keys
OnlyReenabled(r, tgids, sgids, keys) ==
    LET Selected(c) == heap[c].sgid \in sgids /\ heap[c].population_id \in keys
        Kept(c) == ~Selected(c)
    IN  /\ \A t \in Targets :
               r.w.m.disabled_conns[t] =
                   IF t \in tgids THEN SelectSeq(mgr.disabled_conns[t], Kept)
                   ELSE mgr.disabled_conns[t]
        /\ DOMAIN r.w.h = DOMAIN heap
        /\ \A c \in DOMAIN heap :
               r.w.h[c] =
                   IF Selected(c) /\ \E t \in tgids : c \in Range(mgr.disabled_conns[t])
                   THEN [heap[c] EXCEPT !.disabled = FALSE]
                   ELSE heap[c]
        /\ r.w.pops = populations

\* C16: a reenable(s, t, selector) or reenable_group(post_gids, pre_gids,
\* selector) that does not raise enables, and removes from the disabled
\* registry, exactly the registered connections of the given targets whose
\* source is given and whose own population id is that of a population the
\* selector matches; every other registered connection stays disabled and
\* stays in the registry at its place, and nothing else changes.
C16_ReenableOnlySelected ==
    /\ \A p \in Pairs, sel \in PopSelectors :
           LET r == reenable(Fresh(TheWorld), p[1], p[2], sel)
           IN  r.err = "" => OnlyReenabled(r, {p[2]}, {p[1]}, SelectedKeys(sel))
    /\ \A post_gids \in GroupPostGids, pre_gids \in GroupPreGids, sel \in PopSelectors :
           LET r == reenable_group(Fresh(TheWorld), post_gids, pre_gids, sel)
           IN  r.err = "" =>
                   OnlyReenabled(r, Range(IF post_gids.k = "none" THEN local_gids
                                          ELSE post_gids.v),
                                 Range(pre_gids.v), SelectedKeys(sel))

\* with (5, 1) of the base population and (5, 1) of the projection both
\* disabled, a reenable_group has enabled the one of the base population and
\* has left the one of the projection disabled and registered
C16_Witness ==
    /\ last.op = "reenable_group" /\ last.err = ""
    /\ \E c \in last.changed :
           /\ heap[c].sgid = 5 /\ heap[c].tgid = 1 /\ heap[c].population_id = <<0, 0>>
           /\ ~heap[c].disabled
           /\ c \notin Range(mgr.disabled_conns[1])
    /\ \E c \in Range(mgr.disabled_conns[1]) :
           /\ heap[c].sgid = 5 /\ heap[c].population_id # <<0, 0>>
           /\ heap[c].disabled

(***************************************************************************)
(* Properties of finalize across ranks                                     *)
(***************************************************************************)
\* C7: a rank that has the total of finalize has the sum, over all ranks, of
\* the connections each rank instantiated, and by then every rank has
\* instantiated all its lists and handed its count in to the reduction.
C7_TotalIsSumOverRanks ==
    \A r \in 1..NRanks :
        ranks[r].all_ranks_total # NoneId =>
            /\ ranks[r].all_ranks_total = SumSeq([q \in 1..NRanks |-> SumSeq(ranks[q].finalized)])
            /\ \A q \in 1..NRanks :
                   /\ ranks[q].pc \in {"reducing", "returned"}
                   /\ ranks[q].pending = <<>>
                   /\ ranks[q].sent = SumSeq(ranks[q].finalized)

\* the local counts are 4, 0 and 3 and all three ranks report 7
C7_Witness ==
    /\ [q \in 1..3 |-> ranks[q].n_created_conns] = <<4, 0, 3>>
    /\ \A q \in 1..3 : ranks[q].all_ranks_total = 7

(***************************************************************************)
(* Properties of create_connections without a matching block               *)
(***************************************************************************)
\* the src_target arguments create_connections is given
CreateTargets == {NoneName, "A", "Mosaic"}

\* C11: for every configuration and src_target such that no block matches
\* the current population, create_connections raises nothing, makes exactly
\* one connect_all call and no connect_group call, and afterwards the current
\* population stores, for every locally owned target cell and every source of
\* its table in the open dataset, a connection holding (after the synapses it
\* had before) all the synapses of that group.
C11_FallbackConnectAll ==
    \A connections \in Configurations, src_target \in CreateTargets :
        LET w == Fresh(TheWorld)
            r == create_connections(w, connections, src_target)
            Matches(b) == match_filter(b.Source, Cur(w).src_name, src_target,
                                       Cur(w).src_id = 0)
            ds == mgr.synapse_reader
        IN  SelectSeq(connections, Matches) = <<>> =>
                /\ r.err = ""
                /\ r.ret = <<<<"connect_all">>>>
                /\ r.w.m.cur = mgr.cur
                /\ \A i \in 1..Len(local_gids) :
                       LET tgid == local_gids[i]
                       IN  \A k \in 1..Len(Datasets[ds][tgid]) :
                               LET sgid == Datasets[ds][tgid][k].sgid
                                   c0 == CurConn(w, sgid, tgid)
                                   c == CurConn(r.w, sgid, tgid)
                               IN  /\ c # NoConn
                                   /\ r.w.h[c].synapses =
                                          (IF c0 = NoConn THEN <<>> ELSE heap[c0].synapses)
                                          \o ExpectedSynapses(ds, sgid, tgid, 0)

\* with dataset 2 open and only a block of the projection configured,
\* create_connections has loaded (5, 1) and (3, 2) into the current population
C11_Witness ==
    /\ last.op = "create_connections"
    /\ last.err = ""
    /\ mgr.synapse_reader = 2
    /\ "warning: skipping connection create" \notin mgr.log
    /\ \E c \in StoredInCur \cap last.changed : heap[c].sgid = 3 /\ heap[c].tgid = 2
    /\ \E c \in StoredInCur \cap last.changed : heap[c].sgid = 5 /\ heap[c].tgid = 1
    /\ \A c \in StoredInCur : ~heap[c].locked

(***************************************************************************)
(* Properties of the configuration of existing connections                 *)
(***************************************************************************)
\* connection c is stored for the pathway src -> dst restricted to gidvec
InPathway(c, src, dst, gidvec) ==
    /\ \E i \in 1..Len(populations) :
           /\ c \in AllConns(populations[i])
           /\ \/ populations[i].src_name = src.population
              \/ src.population = NoneName /\ PopKey(populations[i]) = <<0, 0>>
           /\ dst.population = NoneName \/ populations[i].dst_name = dst.population
    /\ src.name = NoneName \/ heap[c].sgid \in TargetGids(src.name)
    /\ heap[c].tgid \in TargetGids(dst.name)
    /\ heap[c].tgid \in Range(IF gidvec.k = "none" THEN local_gids ELSE gidvec.v)

\* result r of a configuring call on the pathway src -> dst has created and
\* removed nothing and has touched attributes of connections of the pathway only
OnlyConfigured(r, src, dst, gidvec) ==
    /\ r.err = ""
    /\ r.w.pops = populations
    /\ r.w.m.total_connections = mgr.total_connections
    /\ DOMAIN r.w.h = DOMAIN heap
    /\ \A c \in DOMAIN heap :
           /\ r.w.h[c].sgid = heap[c].sgid /\ r.w.h[c].tgid = heap[c].tgid
           /\ r.w.h[c].population_id = heap[c].population_id
           /\ r.w.h[c].synapses = heap[c].synapses
           /\ r.w.h[c].locked = heap[c].locked /\ r.w.h[c].disabled = heap[c].disabled
           /\ r.w.h[c] # heap[c] => InPathway(c, src, dst, gidvec)

\* C12: configure_group, update_connections and setup_delayed_connection
\* raise nothing and leave every population (its stored pairs, its target ids
\* and count()), connection_count and the set of connection objects as they
\* were; of a connection they change nothing but weight factor, rates, synapse
\* configuration, weights and delayed weights, and only if the connection is
\* stored for the pathway (and the gidvec) of the call.
C12_ConfigureKeepsConnections ==
    /\ \A conn_config \in ConnConfigs, gidvec \in GidVecs :
           OnlyConfigured(configure_group(Fresh(TheWorld), conn_config, gidvec),
                          conn_config.Source, conn_config.Destination, gidvec)
    /\ \A src \in ConfigSources, dst \in ConfigDestinations, gidvec \in GidVecs,
          u \in Updates :
           OnlyConfigured(update_connections(Fresh(TheWorld), src, dst, gidvec, u[1], u[2]),
                          src, dst, gidvec)
    /\ \A conn_config \in DelayedConfigs :
           OnlyConfigured(setup_delayed_connection(Fresh(TheWorld), conn_config),
                          conn_config.Source, conn_config.Destination, SelNone)

\* the projection's (5, 1) has been given a weight factor and a synapse
\* configuration, and now new netcon weights and a second configuration,
\* while the base population's (5, 1) is as it was created
C12_Witness ==
    /\ last.op = "update_connections"
    /\ \E c \in last.changed :
           /\ heap[c].sgid = 5 /\ heap[c].tgid = 1 /\ heap[c].population_id[1] # 0
           /\ heap[c].weight_factor = 2 /\ heap[c].netcon_weight = 3
           /\ heap[c].synapse_configurations = <<"cfg", "cfg">>
    /\ \E c \in Referenced(populations) :
           /\ heap[c].sgid = 5 /\ heap[c].tgid = 1
           /\ heap[c] = [NewConnection(5, 1, 0, 0, 1) EXCEPT !.synapses = heap[c].synapses]

(***************************************************************************)
(* Properties of finalize on a manager holding connections                 *)
(***************************************************************************)
\* the place of the call made on connection c in a sequence of calls
CallPos(calls, c) == CHOOSE i \in 1..Len(calls) : calls[i].conn = c

\* C14 as stated: whatever pathway a connect_group call is given, a finalize
\* right after it calls every connection the connect_group has created before
\* every connection of the same population and target that was stored before
\* the connect_group.
C14_ReverseCreationOrder ==
    \A src \in PathwaySources, dst \in PathwayDestinations, syn_type \in SynapseTypes :
        LET r == connect_group(Fresh(TheWorld), src, dst, syn_type)
            calls == finalize(Fresh(r.w)).ret.calls
        IN  r.err = "" =>
                \A old \in Referenced(populations), new \in DOMAIN r.w.h \ DOMAIN heap :
                    (heap[old].tgid = r.w.h[new].tgid
                     /\ heap[old].population_id = r.w.h[new].population_id)
                        => CallPos(calls, new) < CallPos(calls, old)

\* C15: finalize raises nothing; every call of Connection.finalize it makes
\* and its return find is_file_open false; it makes one call on every stored
\* connection and leaves the populations and the connections as they were.
C15_ReaderReleasedFirst ==
    LET r == finalize(Fresh(TheWorld))
        calls == r.ret.calls
    IN  /\ r.err = ""
        /\ \A i \in 1..Len(calls) : ~calls[i].is_file_open
        /\ ~is_file_open(r.w)
        /\ r.w.pops = populations
        /\ r.w.h = heap
        /\ {calls[i].conn : i \in 1..Len(calls)} = Referenced(populations)
        /\ \A i, j \in 1..Len(calls) : calls[i].conn = calls[j].conn => i = j
        /\ last.op = "finalize" =>
               /\ ~is_file_open(TheWorld)
               /\ \A i \in 1..Len(last.calls) : ~last.calls[i].is_file_open

\* finalize has run on a manager whose reader was open and which stores
\* three connections, all of which have been instantiated and are still stored
C15_Witness ==
    /\ last.op = "finalize"
    /\ last.was_open
    /\ ~is_file_open(TheWorld)
    /\ Len(last.calls) = 3
    /\ {last.calls[i].conn : i \in 1..3} = Referenced(populations)
    /\ Cardinality(Referenced(populations)) = 3

(***************************************************************************)
(* Properties of opening a projection                                      *)
(***************************************************************************)
\* edge populations of projections: into the nodes of the base connectivity
\* and into other nodes
ProjectionEdges == {ProjEdges, <<"Proj", "NodeB", "chemical">>, <<"NodeB", "NodeB", "chemical">>}

\* C20 as stated: opening an edge population whose destination node
\* population is not the one of the base connectivity raises: no population
\* ids are computed for it, no population is selected or registered and the
\* manager keeps its populations.
C20_MismatchedTargetRaises ==
    \A edge_pop_name \in ProjectionEdges :
        LET w == Fresh(TheWorld)
            dst_pop == _edge_to_node_population_names(edge_pop_name)[2]
            ids == _compute_pop_ids(w, edge_pop_name)
            opened == open_synapse_file(w, 2, edge_pop_name, NoneId)
        IN  (mgr.base_population # NoneName /\ dst_pop # mgr.base_population) =>
                /\ ids.err = "raised"
                /\ opened.m.cur = mgr.cur
                /\ opened.pops = populations
                /\ opened.m.by_src_nodes = mgr.by_src_nodes

(***************************************************************************)
(* Properties of the population ids                                        *)
(***************************************************************************)
\* a manager of another rank, or at another time, that has the same base
\* population
OtherManager(base) ==
    World(<<>>, <<ConnectionSetInit(0, 0)>>, [ManagerInit EXCEPT !.base_population = base])

\* C21: the population ids computed for an edge population name are (0, 0)
\* for an absent name; otherwise the destination id is 0 and the source id
\* is 0 when the source node population is the base population and a number
\* in 0..4095 when it is not.  They are the same when computed again and
\* when computed by any manager with the same base population, whatever its
\* populations and connections; base connectivity is population (0, 0).
C21_PopulationIdsDeterministic ==
    /\ last.op = "init_synapse_location" /\ last.err = "" => mgr.cur = <<0, 0>>
    /\ \A edge_pop_name \in EdgeNames :
        LET w == Fresh(TheWorld)
            r == _compute_pop_ids(w, edge_pop_name)
            src_pop == _edge_to_node_population_names(edge_pop_name)[1]
            again == _compute_pop_ids(r.w, edge_pop_name)
            other == _compute_pop_ids(OtherManager(r.w.m.base_population), edge_pop_name)
        IN  /\ r.err = ""
            /\ r.ret[2] = 0
            /\ r.ret[1] \in 0..4095
            /\ edge_pop_name = <<>> => r.ret = <<0, 0>>
            /\ edge_pop_name # <<>> /\ src_pop = r.w.m.base_population => r.ret[1] = 0
            /\ again.ret = r.ret
            /\ other.ret = r.ret
            /\ open_synapse_file(w, 2, edge_pop_name, NoneId).m.cur = r.ret

\* projections from two different source node populations have been opened
\* next to base connectivity, each under its own 12-bit source id
C21_Witness ==
    /\ last.op = "open_synapse_file"
    /\ mgr.base_population = "NodeA"
    /\ PopHas(populations, <<make_id("Proj"), 0>>)
    /\ PopHas(populations, <<make_id("NodeB"), 0>>)
    /\ mgr.cur = <<make_id("NodeB"), 0>>

(***************************************************************************)
(* Properties of file discovery                                            *)
(***************************************************************************)
\* the files of the class that the directory holds
Existing(cls) == {f \in Range(cls.CIRCUIT_FILENAMES) : f \in env.files}

\* the position of file f in the search order of the class
Rank(cls, f) == CHOOSE i \in 1..Len(cls.CIRCUIT_FILENAMES) : cls.CIRCUIT_FILENAMES[i] = f

\* C24: for a directory, _find_circuit_file raises a ConfigurationError when
\* the directory holds none of the class's filenames; when every format can
\* be read and some of them are there it returns, without raising, the path
\* of the one that comes first in the search order, and it warns of the
\* deprecated auto-selection exactly when more than one are there.
C24_FindCircuitFile ==
    \A cls \in ManagerClasses :
        LET r == _find_circuit_file(cls, Location, env.files, env.syntool)
        IN  /\ Existing(cls) = {} => r.err = "ConfigurationError"
            /\ (Existing(cls) # {} /\ (env.syntool \/ cls.own_reader)) =>
                   /\ r.err = ""
                   /\ Len(r.ret) = Len(Location) + 1
                   /\ SubSeq(r.ret, 1, Len(Location)) = Location
                   /\ r.ret[Len(r.ret)] \in Existing(cls)
                   /\ \A f \in Existing(cls) :
                          Rank(cls, r.ret[Len(r.ret)]) <= Rank(cls, f)
                   /\ ("warning: DEPRECATION" \in r.log) <=> (Cardinality(Existing(cls)) > 1)
            /\ last.op = "_find_circuit_file" /\ last.cls = cls =>
                   /\ last.ret = r.ret
                   /\ last.err = r.err
                   /\ last.log = r.log

\* the directory holds an old and a newer synapse file and the search
\* returned the newer one with a warning
C24_Witness ==
    /\ last.op = "_find_circuit_file"
    /\ last.cls = SynapseRuleManager
    /\ env.syntool
    /\ env.files \cap Range(SynapseRuleManager_CIRCUIT_FILENAMES) = {"edges.h5", "nrn.h5"}
    /\ last.ret = <<"circuit", "edges.h5">>
    /\ last.log = {"warning: DEPRECATION"}

(***************************************************************************)
(* Properties of the GapJunctionManager                                    *)
(***************************************************************************)
\* C22: constructing a GapJunctionManager without circuit target, or with a
\* configuration without Path, raises a ConfigurationError, and nothing has
\* been built by then: no population, no connection, no reader, no field of
\* the manager set.
C22_ConstructionPreconditions ==
    /\ \A gj_conf \in GjConfs, circuit_target \in CircuitTargets :
           LET r == GapJunctionManager___init__(gj_conf, circuit_target, env)
           IN  (circuit_target = NoneName \/ gj_conf.Path = NoPath) =>
                   /\ r.err = "ConfigurationError"
                   /\ r.w.pops = <<>>
                   /\ r.w.h = <<>>
                   /\ r.w.m = ManagerInit
                   /\ ~is_file_open(r.w)
    /\ (last.op = "__init__"
        /\ (last.circuit_target = NoneName \/ last.gj_conf.Path = NoPath)) =>
           /\ last.err = "ConfigurationError"
           /\ populations = <<>>
           /\ heap = <<>>
           /\ mgr = ManagerInit

\* construction over a directory that holds a gap-junction file was
\* refused for want of a circuit target
C22_Witness ==
    /\ last.op = "__init__"
    /\ last.circuit_target = NoneName
    /\ last.gj_conf.Path = GjDir
    /\ "gj.syn2" \in env.files
    /\ last.err = "ConfigurationError"
    /\ populations = <<>>

\* the junction counts of the first k lines of gjinfo.txt
FirstCounts(k) == [i \in 1..k |-> env.gjinfo[i][2]]

\* the calls finalize is to make when table maps a gid to its offset: one
\* for every stored connection
OffsetsPassed(calls, table(_)) ==
    /\ \A c \in Referenced(populations) : \E i \in 1..Len(calls) : calls[i].conn = c
    /\ \A i, j \in 1..Len(calls) : calls[i].conn = calls[j].conn => i = j
    /\ \A i \in 1..Len(calls) :
           /\ calls[i].conn \in Referenced(populations)
           /\ calls[i].t_gj_offset = table(heap[calls[i].conn].tgid)
           /\ calls[i].s_gj_offset = table(heap[calls[i].conn].sgid)

\* C23: with the offset table present, its entry k (from 0) is twice the
\* sum of the junction counts of the first k lines of gjinfo.txt, and a
\* finalize that completes has called every connection once, with the
\* entries gid - 1 of its target and of its source; without the table it
\* has called every connection with (0, 0).
C23_GapJunctionOffsets ==
    (Constructed /\ populations # <<>>) =>
        LET table == mgr.gj_offsets.v
            FromTable(gid) == table[(gid - 1) + 1]
            Zero(gid) == 0
            r == GapJunctionManager_finalize(Fresh(TheWorld))
        IN  /\ mgr.gj_offsets.k = "vector" =>
                /\ Len(table) = Len(env.gjinfo)
                /\ \A k \in 0..(Len(table) - 1) : table[k + 1] = 2 * SumSeq(FirstCounts(k))
                /\ r.err = "" => OffsetsPassed(r.ret.calls, FromTable)
                /\ (last.op = "finalize" /\ last.err = "") => OffsetsPassed(last.calls, FromTable)
            /\ mgr.gj_offsets.k = "none" =>
                /\ r.err = ""
                /\ OffsetsPassed(r.ret.calls, Zero)
                /\ last.op = "finalize" => OffsetsPassed(last.calls, Zero)

\* finalize handed the junction from cell 5 to cell 1 the offsets of cell 1
\* and of cell 5 out of the table of a five-line gjinfo.txt
C23_Witness ==
    /\ last.op = "finalize"
    /\ last.err = ""
    /\ mgr.gj_offsets = OffsetsOf(<<0, 4, 4, 6, 6>>)
    /\ \E i \in 1..Len(last.calls) :
           /\ heap[last.calls[i].conn].sgid = 5
           /\ heap[last.calls[i].conn].tgid = 1
           /\ last.calls[i].t_gj_offset = 0
           /\ last.calls[i].s_gj_offset = 6

\* finalize without the table
C23_WitnessNoTable ==
    /\ last.op = "finalize"
    /\ mgr.gj_offsets = OffsetsNone
    /\ Len(last.calls) = 2

(***************************************************************************)
(* Properties of replay                                                    *)
(***************************************************************************)
\* C25: replay hands every connection it replays the start time
\* max(start_delay, Nd.t), which is never before the current simulation
\* time, together with the spike train of the connection's source; it
\* replays, once each, exactly the connections of the pathway whose source
\* has a spike train in the spike map, returns their number and leaves
\* every other connection as it was.
C25_ReplayCausal ==
    \A spike_manager \in SpikeMaps, src \in ReplaySources, dst \in ConfigDestinations,
       start_delay \in StartDelays :
        LET r == replay(Fresh(TheWorld), env.t, spike_manager, src, dst, start_delay)
            start == IF start_delay >= env.t THEN start_delay ELSE env.t
            Replayed(c) == InPathway(c, src, dst, SelNone)
                           /\ heap[c].sgid \in DOMAIN spike_manager
        IN  /\ r.err = ""
            /\ r.w.pops = populations
            /\ DOMAIN r.w.h = DOMAIN heap
            /\ start >= env.t
            /\ \A c \in DOMAIN heap :
                   r.w.h[c] = IF Replayed(c)
                              THEN [heap[c] EXCEPT !.replays =
                                       Append(@, [tvec |-> spike_manager[heap[c].sgid],
                                                  start_delay |-> start])]
                              ELSE heap[c]
            /\ r.ret = Cardinality({c \in DOMAIN heap : Replayed(c)})

\* at time 3 a replay requested from an earlier time was attached to a
\* connection from cell 5 with start time 3, while the connection from
\* cell 1, which has no spike train, was left alone
C25_Witness ==
    /\ last.op = "replay"
    /\ env.t = 3
    /\ \E c \in last.changed :
           /\ heap[c].sgid = 5
           /\ heap[c].replays = <<[tvec |-> <<1, 4>>, start_delay |-> 3]>>
    /\ \E c \in DOMAIN heap : heap[c].sgid = 1 /\ heap[c].tgid = 1 /\ heap[c].replays = <<>>

(***************************************************************************)
(* Properties of a run in which a rank fails                               *)
(***************************************************************************)
\* C26 as stated: once a rank has raised before reaching the reduction of
\* finalize, a rank waiting in the reduction does not wait forever: the run
\* is aborted.
C26_RaiseAbortsRun ==
    \A r \in 1..NRanks :
        ((\E q \in 1..NRanks : ranks[q].pc = "raised") /\ ranks[r].pc = "reducing")
            ~> (ranks[r].pc = "aborted")

\* a rank waits in the reduction for a rank that has raised
C26_Blocked ==
    /\ ranks[1].pc = "raised"
    /\ \A r \in 2..NRanks : ranks[r].pc = "reducing"

(***************************************************************************)
(* Properties of connect_all                                               *)
(***************************************************************************)
\* the pairs (sgid, tgid) of the groups the open dataset holds for the cells
\* gids; with a filter, those whose source the circuit target contains
GroupsOf(gids, filtered) ==
    LET ds == mgr.synapse_reader
        all == UNION {{<<Datasets[ds][t][k].sgid, t>> : k \in 1..Len(Datasets[ds][t])} :
                         t \in Range(gids)}
    IN  {p \in all : filtered => completeContains(mgr.circuit_target, p[1])}

C28_ConnectAllNeverLocks ==
    is_file_open(TheWorld) =>
        \A only_gids \in {SelNone, SelList(<<1>>)}, only_sgid_in_target \in BOOLEAN :
            LET r == connect_all(Fresh(TheWorld), 1, only_gids, only_sgid_in_target)
            IN  /\ r.err = ""
                /\ \A c \in DOMAIN r.w.h :
                       r.w.h[c].locked =
                           (IF c \in DOMAIN heap THEN heap[c].locked ELSE FALSE)

\* connect_all has extended a connection that connect_group had locked and
\* has created another one, which is unlocked
C28_Witness ==
    /\ last.op = "connect_all" /\ last.err = ""
    /\ \E c \in StoredInCur \cap last.changed :
           heap[c].locked /\ Len(heap[c].synapses) > 1
    /\ \E c \in StoredInCur \cap last.changed :
           ~heap[c].locked /\ Len(heap[c].synapses) = 1


(***************************************************************************)
(* Properties of loading with several populations                          *)
(***************************************************************************)
\* population j of the manager is in r.w what it is now: the same pairs in
\* the same order, the same count(), and every connection with its synapses
PopulationUntouched(r, j) ==
    /\ r.w.pops[j] = populations[j]
    /\ count(r.w.pops[j]) = count(populations[j])
    /\ \A c \in AllConns(populations[j]) : r.w.h[c] = heap[c]

OthersUntouched(r) ==
    /\ Len(r.w.pops) = Len(populations)
    /\ r.w.m.cur = mgr.cur
    /\ \A j \in 1..Len(populations) :
           PopKey(populations[j]) # mgr.cur => PopulationUntouched(r, j)

\* C29: connect_all and connect_group load into the selected population
\* only: every other population of the manager keeps its pairs, its count()
\* and the synapses of its connections.
C29_OnlyActivePopulation ==
    is_file_open(TheWorld) =>
        /\ \A only_gids \in {SelNone, SelList(<<1>>)}, only_sgid_in_target \in BOOLEAN :
               OthersUntouched(connect_all(Fresh(TheWorld), 1, only_gids,
                                           only_sgid_in_target))
        /\ \A src \in PathwaySources, dst \in PathwayDestinations, syn_type \in SynapseTypes :
               OthersUntouched(connect_group(Fresh(TheWorld), src, dst, syn_type))

\* the projection is selected and connect_group has loaded a connection into
\* it while the base population, registered first, holds connections
C29_Witness ==
    /\ last.op = "connect_group" /\ last.err = "" /\ last.dcount > 0
    /\ Len(populations) = 2
    /\ mgr.cur = <<make_id("Proj"), 0>>
    /\ count(populations[1]) > 0
    /\ count(Cur(TheWorld)) = last.dcount

\* the same with connect_all
C29_WitnessConnectAll ==
    /\ last.op = "connect_all" /\ last.err = "" /\ last.dcount > 0
    /\ Len(populations) = 2
    /\ mgr.cur = <<make_id("Proj"), 0>>
    /\ count(populations[1]) > 0


(***************************************************************************)
(* Properties of reenable_group without source gids                        *)
(***************************************************************************)
\* C30: with a connection disabled, reenable_group(post_gids, None, sel)
\* does not raise, and enables and takes out of the registries of the
\* targets every registered connection of a selected population, whatever
\* its source.
C30_NoneMatchesAll ==
    (\E t \in Targets : mgr.disabled_conns[t] # <<>>) =>
        \A post_gids \in GroupPostGids, sel \in PopSelectors :
            LET r == reenable_group(Fresh(TheWorld), post_gids, SelNone, sel)
            IN  /\ r.err = ""
                /\ OnlyReenabled(r, Range(IF post_gids.k = "none" THEN local_gids
                                          ELSE post_gids.v),
                                 {heap[c].sgid : c \in DOMAIN heap}, SelectedKeys(sel))


(***************************************************************************)
(* Properties of a population whose connections aggregate all sources      *)
(***************************************************************************)
\* the connection target t holds in cs, or NoConn
OnlyConn(cs, t) == IF MapGet(cs.cmap, t) = <<>> THEN NoConn ELSE MapGet(cs.cmap, t)[1]

\* every target of cs holds at most one connection, which has no source id,
\* and count() is the number of targets that hold one
OnePerTarget(h, cs) ==
    /\ \A j \in 1..Len(cs.cmap) :
           /\ Len(cs.cmap[j].conns) <= 1
           /\ \A c \in Range(cs.cmap[j].conns) : h[c].sgid = NoneGid /\ h[c].tgid = cs.cmap[j].tgid
    /\ count(cs) = Cardinality({j \in 1..Len(cs.cmap) : cs.cmap[j].conns # <<>>})

\* C31: with the aggregating factory every target holds at most one
\* connection and count() is the number of targets holding one;
\* get_or_create_connection returns the target's connection whatever the
\* source id, creating it and adding one to count() only when the target
\* had none, and connect_all leaves exactly one connection for every target
\* cell it was given.
C31_OneConnectionPerTarget ==
    /\ OnePerTarget(heap, TheSet)
    /\ \A s \in ACellSources, t \in Targets :
           LET c0 == OnlyConn(TheSet, t)
               r == get_or_create_connection(heap, TheSet, s, t, 1)
           IN  /\ r.ret # NoConn /\ r.ret = OnlyConn(r.cs, t)
               /\ c0 # NoConn => r.ret = c0 /\ r.h = heap /\ count(r.cs) = count(TheSet)
               /\ c0 = NoConn => count(r.cs) = count(TheSet) + 1
               /\ OnePerTarget(r.h, r.cs)
               /\ \A s2 \in ACellSources :
                      LET r2 == get_or_create_connection(r.h, r.cs, s2, t, 1)
                      IN  r2.ret = r.ret /\ r2.h = r.h /\ count(r2.cs) = count(r.cs)
    /\ is_file_open(TheWorld) =>
           \A only_gids \in {SelNone, SelList(<<2>>), SelList(<<1>>)} :
               LET r == connect_all(Fresh(TheWorld), 1, only_gids, FALSE)
                   gids == IF only_gids.k = "none" THEN local_gids ELSE only_gids.v
               IN  /\ r.err = ""
                   /\ OnePerTarget(r.w.h, Cur(r.w))
                   /\ \A t \in Range(gids) : OnlyConn(Cur(r.w), t) # NoConn
                   /\ \A t \in Targets \ Range(gids) :
                          OnlyConn(Cur(r.w), t) = OnlyConn(TheSet, t)

\* connect_all has run over both cells: each holds one connection that has
\* gathered the rows of its two sources, and count() is 2
C31_Witness ==
    /\ last.op = "connect_all" /\ last.err = ""
    /\ count(TheSet) = 2
    /\ \A t \in Targets :
           /\ Len(MapGet(TheSet.cmap, t)) = 1
           /\ {heap[OnlyConn(TheSet, t)].synapses[i].params.sgid :
                  i \in 1..Len(heap[OnlyConn(TheSet, t)].synapses)} = {t + 1, t + 2}


(***************************************************************************)
(* Properties of create_connections with matching blocks                   *)
(***************************************************************************)
\* connect_group applied for every block of rules, in their order
RECURSIVE GroupsApplied(_, _)
GroupsApplied(w, rules) ==
    IF rules = <<>> THEN w
    ELSE GroupsApplied(connect_group(w, rules[1].Source, rules[1].Destination,
                                     rules[1].SynapseID).w,
                       Tail(rules))

\* C32: when some block matches the current population and it is not the
\* case of a single block of weight 0, create_connections calls
\* connect_group once for every matching block that has no Delay and whose
\* CreateMode is not NoCreate, in the order of the configuration, with the
\* block's Source, Destination and SynapseID; it does nothing else, and in
\* particular never calls connect_all, also when every matching block is
\* skipped.
C32_GroupPerMatchingRule ==
    \A connections \in Configurations, src_target \in CreateTargets :
        LET w == Fresh(TheWorld)
            r == create_connections(w, connections, src_target)
            Matches(b) == match_filter(b.Source, Cur(w).src_name, src_target,
                                       Cur(w).src_id = 0)
            matching == SelectSeq(connections, Matches)
            Creates(b) == ~b.Delay /\ b.CreateMode # "NoCreate"
            wanted == SelectSeq(matching, Creates)
        IN  (matching # <<>> /\ ~(Len(matching) = 1 /\ matching[1].Weight = 0)) =>
                /\ r.err = ""
                /\ Len(r.ret) = Len(wanted)
                /\ \A i \in 1..Len(wanted) :
                       r.ret[i] = <<"connect_group", wanted[i].Source,
                                    wanted[i].Destination, wanted[i].SynapseID>>
                /\ <<"connect_all">> \notin Range(r.ret)
                /\ r.w = GroupsApplied(w, wanted)

\* two blocks matched and connect_group was called for Mosaic -> Mosaic
\* first and for A -> B second, as they were configured
C32_Witness ==
    /\ last.op = "create_connections" /\ last.err = ""
    /\ Len(last.calls) = 2
    /\ last.calls[1][1] = "connect_group" /\ last.calls[1][2].name = "Mosaic"
    /\ last.calls[2][1] = "connect_group" /\ last.calls[2][2].name = "A"
    /\ last.dcount > 0
    /\ \A c \in last.changed : heap[c].locked

\* blocks matched and every one of them was skipped: no call at all was made
C32_WitnessAllSkipped ==
    /\ last.op = "create_connections" /\ last.err = ""
    /\ last.calls = <<>>
    /\ "warning: skipping connection create" \notin mgr.log
    /\ last.changed = {} /\ last.dcount = 0


(***************************************************************************)
(* Properties of the running count                                         *)
(***************************************************************************)
\* the number of connections the per-target lists of cs hold
Held(cs) == SumSeq([j \in 1..Len(cs.cmap) |-> Len(cs.cmap[j].conns)])

\* C33: count() of the ConnectionSet is the number of connections held in
\* its per-target lists, whatever calls of get_or_create_connection,
\* store_connection, delete and delete_group came before.
C33_CountIsHeld == count(TheSet) = Held(TheSet)


(***************************************************************************)
(* Properties of connection_count                                          *)
(***************************************************************************)
\* C34: connection_count of the manager is the sum of count() over its
\* populations.
C34_ConnectionCountIsSum ==
    mgr.total_connections = SumSeq([i \in 1..Len(populations) |-> count(populations[i])])


(***************************************************************************)
(* Properties of the disabled registry                                     *)
(***************************************************************************)
\* C35: every connection listed in the disabled registry is stored in the
\* ConnectionSet of its population.
C35_RegisteredAreStored ==
    \A t \in Targets :
        \A c \in Range(mgr.disabled_conns[t]) :
            /\ PopHas(populations, heap[c].population_id)
            /\ c \in AllConns(populations[PopIdx(populations, heap[c].population_id)])


\* C36: disable(s, t, selector) does not raise when a population matched by
\* the selector does not store the pair; every matched population that does
\* store it has its connection disabled and listed in the registry of t.
C36_DisableSkipsMissing ==
    \A p \in Pairs, sel \in PopSelectors :
        LET w == Fresh(TheWorld)
            f == find_populations(w, sel)
            d == disable(w, p[1], p[2], sel)
        IN  f.err = "" =>
                /\ d.err = ""
                /\ \A key \in Range(f.ret) :
                       LET c == StoredConn(w, key, p[1], p[2])
                       IN  c # NoConn =>
                               /\ d.w.h[c].disabled
                               /\ c \in Range(d.w.m.disabled_conns[p[2]])


(***************************************************************************)
(* Properties of find_populations                                          *)
(***************************************************************************)
\* C38: find_populations(selector) does not raise and returns exactly the
\* registered populations whose ids match the selector, in the order of
\* their registration; none when no registered population matches.
C38_FindPopulationsExact ==
    \A sel \in PopSelectors :
        LET f == find_populations(Fresh(TheWorld), sel)
            Matching(cs) == PopKey(cs) \in SelectedKeys(sel)
            wanted == SelectSeq(populations, Matching)
        IN  /\ f.err = ""
            /\ f.ret = [i \in 1..Len(wanted) |-> PopKey(wanted[i])]


(***************************************************************************)
(* Properties of the index of populations by source node population        *)
(***************************************************************************)
\* C37: whatever datasets were opened before, get_target_connections yields
\* no connection twice.
C37_YieldedOnce ==
    \A src \in ConfigSources, dst \in ConfigDestinations, gidvec \in {SelNone, SelList(<<1>>)} :
        LET r == get_target_connections(Fresh(TheWorld), src, dst, gidvec)
        IN  \A i, j \in 1..Len(r.ret) : r.ret[i] = r.ret[j] => i = j


(***************************************************************************)
(* Properties of the legacy GapJunctionManager                             *)
(***************************************************************************)
\* C39: with a circuit target, every connection groupConnect creates or
\* updates has its source gid in the source target and in the circuit
\* target.
C39_GroupConnectInCircuitTarget ==
    \A src_target \in {"A", "Mosaic"}, dst_target \in {"B", "Mosaic"},
       gidvec \in LegacyGidVecs, weight \in {NoneWeight, 2}, configuration \in {"", "cfg"} :
        LET r == groupConnect(Fresh(TheWorld), src_target, dst_target, gidvec, weight,
                              configuration)
        IN  \A c \in DOMAIN r.w.h :
                (c \notin DOMAIN heap \/ r.w.h[c] # heap[c]) =>
                    /\ completeContains(getTarget(src_target), r.w.h[c].sgid)
                    /\ mgr.circuit_target.k # "none" =>
                           completeContains(mgr.circuit_target, r.w.h[c].sgid)

====
